---- MODULE Spec2Model ----
(***************************************************************************)
(* Model of the pipeline asset reconciliation of the kabanero operator:    *)
(* ActivatePipelines and DeleteAsset (pkg/controller/utils/pipelines.go),  *)
(* the manifest retrieval they call (GetManifests) and the cluster object  *)
(* store they talk to.  A pass of ActivatePipelines is modelled at the     *)
(* granularity of the individual cluster API calls it makes.               *)
(***************************************************************************)
EXTENDS Integers, Sequences, FiniteSets, TLC

(***************************************************************************)
(* Bounds of the model.                                                    *)
(***************************************************************************)
\* Longest pipeline list of one stack version in the status or in the spec.
MaxPipelines == 2
\* Number of passes a stack runs in one behaviour.
MaxPasses == 2
\* Most files, other than manifest.yaml, in an archive of any content.
MaxFiles == 2
\* Most entries in the index (manifest.yaml) of an archive of any content.
MaxContents == 2

\* The clock of the HTTP cache runs from 0 to MaxTime.
MaxTime == 2

\* Retry is called with attempts up to MaxAttempts and a wait time up to
\* MaxWait.
MaxAttempts == 3
MaxWait == 2

\* A Kabanero instance is reconciled up to MaxReconciles times.
MaxReconciles == 4

(***************************************************************************)
(* Asset status values, pipelines.go:22-27.                                *)
(***************************************************************************)
AssetStatusActive == "active"
AssetStatusFailed == "failed"
AssetStatusUnknown == "unknown"

(***************************************************************************)
(* The stacks (owners).  A stack is identified by the UID of its owner     *)
(* reference; the names are those of the controller tests.                 *)
(***************************************************************************)
myuid == "MYUID"
otheruid == "OTHERUID"
Stacks == {myuid, otheruid}

\* Namespace of the stack resource, passed as targetNamespace.
targetNamespace == "kabanero"

\* The stack versions that status and spec may list.
Versions == <<"0.2.5", "0.2.6">>

(***************************************************************************)
(* Pipeline references.  A GitReleaseInfo is abstracted to one string, the *)
(* empty string being the zero value.                                      *)
(***************************************************************************)
NoGitRelease == ""

IsUsable(gitRelease) == gitRelease # NoGitRelease

\* type PipelineUseMapKey, built the way lines 63-68 and 101-108 build it
\* from a (url, git release, digest) triple of a status or spec entry.
PipelineUseMapKey(url, gitRelease, digest) ==
    IF IsUsable(gitRelease)
    THEN [Url |-> "", GitRelease |-> gitRelease, Digest |-> digest]
    ELSE [Url |-> url, GitRelease |-> NoGitRelease, Digest |-> digest]

\* The (url, git release, digest) triples that pipeline entries of the
\* spec and of the status are drawn from.
basicPipeline == [Url |-> "/basic.pipeline.tar.gz", GitRelease |-> NoGitRelease, Digest |-> "8080"]
digest1Pipeline == [Url |-> "/digest1.pipeline.tar.gz", GitRelease |-> NoGitRelease, Digest |-> "0238"]

PipelineRefs == {basicPipeline, digest1Pipeline}

\* The pipeline whose archive may have any content.
badPipeline == [Url |-> "/bad.pipeline.tar.gz", GitRelease |-> NoGitRelease, Digest |-> "eca2"]

\* The file names a pipeline may be served under and the digests a spec
\* may give for it: those of the files served, another one, none and a
\* text that is not hex.
DigestUrls ==
    {"/digest2.pipeline.tar.gz", "/digest2.pipeline.tgz", "/digest2.pipeline.zip",
     "/single.pipeline.yaml", "/single.pipeline.yml"}
DigestValues == {"c3f2", "5151", "beef", "", "nothex"}
DigestRefs ==
    {[Url |-> u, GitRelease |-> NoGitRelease, Digest |-> d] : u \in DigestUrls, d \in DigestValues}

digest2Pipeline == [Url |-> "/digest2.pipeline.tar.gz", GitRelease |-> NoGitRelease, Digest |-> "c3f2"]

\* The pipeline of triggers.
triggerPipeline == [Url |-> "/trigger.pipeline.tar.gz", GitRelease |-> NoGitRelease, Digest |-> "9014"]

KeyOf(p) == PipelineUseMapKey(p.Url, p.GitRelease, p.Digest)

\* Sequences over S of length at most n.
SeqUpTo(S, n) == UNION {[1..k -> S] : k \in 0..n}

\* The pipeline lists of one stack version.
PipelineLists(refs) == SeqUpTo(refs, MaxPipelines)

\* status.GetVersions() / spec.GetVersions(): one entry per version, each
\* with its pipeline list (empty for a version that is inactive or gone).
VersionLists(refs) ==
    {[i \in 1..Len(Versions) |-> [Version |-> Versions[i], Pipelines |-> f[i]]] :
        f \in [1..Len(Versions) -> PipelineLists(refs)]}

(***************************************************************************)
(* Lines 60-77: the seed of the use map, one entry per distinct key of the *)
(* status, counting every status entry.  recorded[key] is the             *)
(* PipelineStatus.ActiveAssets of the first status entry with that key,    *)
(* the only one the code copies.                                           *)
(***************************************************************************)
\* A seed that counts a key once however many status entries have it.
RECURSIVE SeedPipelinesOnce(_, _, _)
SeedPipelinesOnce(useMap, pipelines, recorded) ==
    IF pipelines = <<>> THEN useMap
    ELSE LET key == KeyOf(Head(pipelines))
             value == [Url |-> Head(pipelines).Url,
                       GitRelease |-> Head(pipelines).GitRelease,
                       Digest |-> Head(pipelines).Digest,
                       ActiveAssets |-> recorded[key],
                       useCount |-> 1,
                       manifests |-> <<>>,
                       ManifestError |-> FALSE]
         IN SeedPipelinesOnce((key :> value) @@ useMap, Tail(pipelines), recorded)

RECURSIVE SeedPipelines(_, _, _)
SeedPipelines(useMap, pipelines, recorded) ==
    IF pipelines = <<>> THEN useMap
    ELSE LET key == KeyOf(Head(pipelines))
             value == IF key \in DOMAIN useMap
                      THEN useMap[key]
                      ELSE [Url |-> Head(pipelines).Url,
                            GitRelease |-> Head(pipelines).GitRelease,
                            Digest |-> Head(pipelines).Digest,
                            ActiveAssets |-> recorded[key],
                            useCount |-> 0,
                            manifests |-> <<>>,
                            ManifestError |-> FALSE]
             next == [value EXCEPT !.useCount = @ + 1]
         IN SeedPipelines((key :> next) @@ useMap, Tail(pipelines), recorded)

\* A seed that reads the first version of the status only.
SeedFirstVersion(useMap, versions, recorded) ==
    IF versions = <<>> THEN useMap
    ELSE SeedPipelines(useMap, Head(versions).Pipelines, recorded)

RECURSIVE SeedVersions(_, _, _)
SeedVersions(useMap, versions, recorded) ==
    IF versions = <<>> THEN useMap
    ELSE SeedVersions(SeedPipelines(useMap, Head(versions).Pipelines, recorded),
                      Tail(versions), recorded)

\* type pipelineVersion, lines 47-50.
pipelineVersion(p, version) == [key |-> KeyOf(p), version |-> version]

\* Lines 81-94: assetsToDecrement starts as the set of the (key, version)
\* pairs of the status.
PairsOf(versions) ==
    UNION {{pipelineVersion(versions[i].Pipelines[j], versions[i].Version) :
               j \in DOMAIN versions[i].Pipelines} : i \in DOMAIN versions}

(***************************************************************************)
(* Lines 99-116: every spec entry whose pair is in assetsToDecrement       *)
(* removes it from there, every other one is put in assetsToIncrement.     *)
(* sets is the pair [dec, inc] of the two maps.                            *)
(***************************************************************************)
RECURSIVE ReconcilePipelines(_, _, _)
ReconcilePipelines(sets, pipelines, version) ==
    IF pipelines = <<>> THEN sets
    ELSE LET cur == pipelineVersion(Head(pipelines), version)
             next == IF cur \in sets.dec
                     THEN [sets EXCEPT !.dec = @ \ {cur}]
                     ELSE [sets EXCEPT !.inc = @ \cup {cur}]
         IN ReconcilePipelines(next, Tail(pipelines), version)

RECURSIVE ReconcileSpec(_, _)
ReconcileSpec(sets, versions) ==
    IF versions = <<>> THEN sets
    ELSE ReconcileSpec(ReconcilePipelines(sets, Head(versions).Pipelines, Head(versions).Version),
                       Tail(versions))

\* The SkipCertVerification flag of a spec entry, false when not set.
SkipOf(p) == IF "SkipCertVerification" \in DOMAIN p THEN p.SkipCertVerification ELSE FALSE

\* Lines 98-108: the map certVerification, assigned once for each entry of
\* the spec in the order of the versions and of their pipelines, so that
\* a key keeps the flag of the last entry that has it.
certVerification(versions) ==
    LET at == UNION {{<<i, j>> : j \in DOMAIN versions[i].Pipelines} : i \in DOMAIN versions}
        entry(a) == versions[a[1]].Pipelines[a[2]]
        after(a, b) == a[1] > b[1] \/ (a[1] = b[1] /\ a[2] > b[2])
        last(key) == CHOOSE a \in at :
                        /\ KeyOf(entry(a)) = key
                        /\ \A b \in at : KeyOf(entry(b)) = key => ~after(b, a)
    IN [key \in {KeyOf(entry(a)) : a \in at} |-> SkipOf(entry(last(key)))]

\* certVerification[key], lines 173 and 234: false for a key that the map
\* does not hold.
SkipFor(cert, key) == IF key \in DOMAIN cert THEN cert[key] ELSE FALSE

\* The (key, flag) pairs of the entries of a spec.
EntriesOf(versions) ==
    UNION {{[key |-> KeyOf(versions[i].Pipelines[j]), skip |-> SkipOf(versions[i].Pipelines[j])] :
               j \in DOMAIN versions[i].Pipelines} : i \in DOMAIN versions}

\* Lines 119-126: one decrement per pair left in assetsToDecrement; err is
\* the return at line 122 for a pair whose key has no entry.
RECURSIVE ApplyDecrements(_, _)
ApplyDecrements(useMap, dec) ==
    IF dec = {} THEN [err |-> FALSE, useMap |-> useMap]
    ELSE LET cur == CHOOSE c \in dec : TRUE
         IN IF cur.key \notin DOMAIN useMap
            THEN [err |-> TRUE, useMap |-> useMap]
            ELSE ApplyDecrements([useMap EXCEPT ![cur.key].useCount = @ - 1], dec \ {cur})

\* Lines 128-137: one increment per pair of assetsToIncrement, on a new
\* entry when the key has none.
RECURSIVE ApplyIncrements(_, _)
ApplyIncrements(useMap, inc) ==
    IF inc = {} THEN useMap
    ELSE LET cur == CHOOSE c \in inc : TRUE
             value == IF cur.key \in DOMAIN useMap
                      THEN useMap[cur.key]
                      ELSE [Url |-> cur.key.Url,
                            GitRelease |-> cur.key.GitRelease,
                            Digest |-> cur.key.Digest,
                            ActiveAssets |-> <<>>,
                            useCount |-> 0,
                            manifests |-> <<>>,
                            ManifestError |-> FALSE]
             next == [value EXCEPT !.useCount = @ + 1]
         IN ApplyIncrements((cur.key :> next) @@ useMap, inc \ {cur})

\* Lines 96-137 as a whole: the use map after the decrement and increment
\* sets were applied; err when line 122 returns.
UpdateUseCounts(useMap, dec, specVersions) ==
    LET sets == ReconcileSpec([dec |-> dec, inc |-> {}], specVersions)
        decremented == ApplyDecrements(useMap, sets.dec)
    IN IF decremented.err
       THEN decremented
       ELSE [err |-> FALSE, useMap |-> ApplyIncrements(decremented.useMap, sets.inc)]

(***************************************************************************)
(* Archives.  A SHA-256 value is written as its hex text; a downloaded     *)
(* payload carries the sum of its bytes and, for an archive, its tar       *)
(* entries.  An entry carries its header name, the sum of its bytes, the   *)
(* index it parses to (manifest.yaml) and the objects it decodes to.       *)
(***************************************************************************)
ZeroSum == "0000"
NotHex == "nothex"

\* hex.DecodeString followed by copy into a [32]byte, httpcache.go:365-369
\* and 450-454: an error for text that is not hex, the zero array for the
\* empty text.
HexDecodeFails(text) == text = NotHex
HexSum(text) == IF text = "" THEN ZeroSum ELSE text

\* strings.TrimPrefix(header.Name, "./")
TrimDotSlash(name) ==
    CASE name = "./manifest.yaml" -> "manifest.yaml"
      [] name = "./build-task.yaml" -> "build-task.yaml"
      [] OTHER -> name

\* strings.HasSuffix(header.Name, ".yaml")
HasYamlSuffix(name) ==
    name \in {"manifest.yaml", "./manifest.yaml", "build-task.yaml", "./build-task.yaml",
              "build-pipeline.yaml", "deployment.yaml", "bindings.yaml",
              "template.yaml", "listener.yaml", "/single.pipeline.yaml"}

\* The objects of the archives: name, type metadata and own namespace.
buildTask == [Name |-> "build-task", Group |-> "tekton.dev", Kind |-> "Task", Namespace |-> ""]
buildPipeline == [Name |-> "build-pipeline", Group |-> "tekton.dev", Kind |-> "Pipeline", Namespace |-> ""]
deployment == [Name |-> "deployment", Group |-> "apps", Kind |-> "Deployment", Namespace |-> ""]

File(name, sum, docs) ==
    [Name |-> name, Sum |-> sum, Complete |-> TRUE, Renders |-> TRUE,
     Contents |-> <<>>, Docs |-> docs]
Index(name, contents) ==
    [Name |-> name, Sum |-> "ffff", Complete |-> TRUE, Renders |-> TRUE,
     Contents |-> contents, Docs |-> <<>>]

basicArchive ==
    [Sum |-> "8080", Readable |-> TRUE,
     Entries |-> <<Index("./manifest.yaml",
                         <<[File |-> "build-task.yaml", Sha256 |-> "aaaa"],
                           [File |-> "build-pipeline.yaml", Sha256 |-> "bbbb"]>>),
                   File("./build-task.yaml", "aaaa", <<buildTask>>),
                   File("build-pipeline.yaml", "bbbb", <<buildPipeline>>)>>]

digest1Archive ==
    [Sum |-> "0238", Readable |-> TRUE,
     Entries |-> <<File("build-pipeline.yaml", "bbbb", <<buildPipeline>>),
                   File("deployment.yaml", "cccc", <<deployment>>),
                   Index("manifest.yaml",
                         <<[File |-> "build-pipeline.yaml", Sha256 |-> "bbbb"],
                           [File |-> "deployment.yaml", Sha256 |-> ""]>>)>>]

\* The archive and the yaml file served under the names of DigestUrls.
digest2Archive ==
    [Sum |-> "c3f2", Readable |-> TRUE,
     Entries |-> <<Index("manifest.yaml", <<[File |-> "build-task.yaml", Sha256 |-> "aaaa"]>>),
                   File("./build-task.yaml", "aaaa", <<buildTask>>)>>]
singleYaml == File("/single.pipeline.yaml", "5151", <<buildPipeline>>)

\* The archives of any content: up to MaxFiles files, with or without a
\* manifest.yaml, before or after the files, that has up to MaxContents
\* entries with a checksum that is right, wrong or empty.
FilePool ==
    {File("./build-task.yaml", "aaaa", <<buildTask>>),
     File("build-pipeline.yaml", "bbbb", <<buildPipeline>>),
     File("readme.txt", "dddd", <<>>)}
ContentPool ==
    {[File |-> "build-task.yaml", Sha256 |-> "aaaa"],
     [File |-> "build-task.yaml", Sha256 |-> ""],
     [File |-> "build-task.yaml", Sha256 |-> "eeee"],
     [File |-> "build-pipeline.yaml", Sha256 |-> "bbbb"]}
BadArchives ==
    LET files == SeqUpTo(FilePool, MaxFiles)
        indexes == {Index("manifest.yaml", c) : c \in SeqUpTo(ContentPool, MaxContents)}
    IN {[Sum |-> badPipeline.Digest, Readable |-> TRUE, Entries |-> e] :
           e \in files \cup {<<i>> \o f : i \in indexes, f \in files}
                      \cup {f \o <<i>> : i \in indexes, f \in files}}

\* The archives of triggers: up to MaxFiles files, each with an object of
\* one of the trigger kinds, with or without a namespace of its own, or
\* with a task that has one; the index lists every file without checksum.
TriggerPool ==
    {File("bindings.yaml", "abcd",
          <<[Name |-> "build-trigger-binding", Group |-> "triggers.tekton.dev",
             Kind |-> "TriggerBinding", Namespace |-> ""]>>),
     File("template.yaml", "abcd",
          <<[Name |-> "build-trigger-template", Group |-> "triggers.tekton.dev",
             Kind |-> "TriggerTemplate", Namespace |-> "tekton-pipelines"]>>),
     File("listener.yaml", "abcd",
          <<[Name |-> "build-listener", Group |-> "triggers.tekton.dev",
             Kind |-> "EventListener", Namespace |-> "tekton-pipelines"]>>),
     File("build-task.yaml", "abcd",
          <<[Name |-> "build-task", Group |-> "tekton.dev",
             Kind |-> "Task", Namespace |-> "tekton-pipelines"]>>)}
TriggerArchives ==
    {[Sum |-> triggerPipeline.Digest, Readable |-> TRUE,
      Entries |-> <<Index("manifest.yaml",
                          <<[File |-> "bindings.yaml", Sha256 |-> ""],
                            [File |-> "template.yaml", Sha256 |-> ""],
                            [File |-> "listener.yaml", Sha256 |-> ""],
                            [File |-> "build-task.yaml", Sha256 |-> ""]>>)>> \o f] :
        f \in SeqUpTo(TriggerPool, MaxFiles)}

\* What DownloadToByte can return for a pipeline: an error (no usable url
\* or git release, transport or TLS failure) or the bytes the server holds.
DownloadError == [Error |-> "download error"]

\* The result of a retrieval or decode that failed.
Failed == [err |-> TRUE, manifests |-> <<>>]

\* processManifest, httpcache.go:399-416: the rendered objects of one file,
\* each with the file's checksum text.
processManifest(file, assetSumString) ==
    IF ~file.Renders
    THEN Failed
    ELSE [err |-> FALSE,
          manifests |-> [i \in DOMAIN file.Docs |->
                            [Name |-> file.Docs[i].Name,
                             Group |-> file.Docs[i].Group,
                             Kind |-> file.Docs[i].Kind,
                             Namespace |-> file.Docs[i].Namespace,
                             Sha256 |-> assetSumString]]]

\* First pass of decodeManifests, httpcache.go:289-323: the index of the
\* last manifest.yaml of the archive.
RECURSIVE readIndex(_, _)
readIndex(entries, state) ==
    IF entries = <<>> THEN state
    ELSE LET header == Head(entries)
         IN IF TrimDotSlash(header.Name) = "manifest.yaml"
            THEN IF ~header.Complete
                 THEN [state EXCEPT !.err = TRUE]
                 ELSE readIndex(Tail(entries),
                                [state EXCEPT !.foundManifest = TRUE, !.Contents = header.Contents])
            ELSE readIndex(Tail(entries), state)

\* A checksum comparison that accepts every file.
NeverMismatch(header, content) == FALSE

\* httpcache.go:370: the checksum of the file is not the one of the index.
Mismatch(header, content) == header.Sum # HexSum(content.Sha256)

\* A lookup that takes every file as listed.
NeverUnlisted(checked) == FALSE

\* httpcache.go:383: the file is in none of the entries of the index.
Unlisted(checked) == ~checked.match

\* httpcache.go:355-385: the lookup of one file in the index.  state is
\* [err, match, assetSumString].
RECURSIVE checkContents(_, _, _)
checkContents(contents, header, state) ==
    IF contents = <<>> THEN state
    ELSE LET content == Head(contents)
         IN IF content.File = TrimDotSlash(header.Name)
            THEN IF content.Sha256 # ""
                 THEN IF HexDecodeFails(content.Sha256) \/ Mismatch(header, content)
                      THEN [state EXCEPT !.err = TRUE]
                      ELSE checkContents(Tail(contents), header,
                                         [state EXCEPT !.match = TRUE, !.assetSumString = content.Sha256])
                 ELSE checkContents(Tail(contents), header,
                                    [state EXCEPT !.match = TRUE, !.assetSumString = ""])
            ELSE checkContents(Tail(contents), header, state)

\* Second pass of decodeManifests, httpcache.go:333-395.
RECURSIVE readFiles(_, _, _)
readFiles(entries, contents, manifests) ==
    IF entries = <<>> THEN [err |-> FALSE, manifests |-> manifests]
    ELSE LET header == Head(entries)
         IN IF TrimDotSlash(header.Name) = "manifest.yaml" \/ ~HasYamlSuffix(header.Name)
            THEN readFiles(Tail(entries), contents, manifests)
            ELSE IF ~header.Complete
            THEN Failed
            ELSE LET checked == checkContents(contents, header,
                                              [err |-> FALSE, match |-> FALSE, assetSumString |-> ""])
                     pmanifests == processManifest(header, checked.assetSumString)
                 IN IF checked.err \/ Unlisted(checked) \/ pmanifests.err
                    THEN Failed
                    ELSE readFiles(Tail(entries), contents, manifests \o pmanifests.manifests)

\* decodeManifests, httpcache.go:277-396.
decodeManifests(archive) ==
    IF ~archive.Readable
    THEN Failed
    ELSE LET index == readIndex(archive.Entries,
                                [err |-> FALSE, foundManifest |-> FALSE, Contents |-> <<>>])
         IN IF index.err \/ ~index.foundManifest
            THEN Failed
            ELSE readFiles(archive.Entries, index.Contents, <<>>)

\* getPipelineFileType, httpcache.go:423-440, on the file names in use.
tarGzType == ".tar.gz"
yamlType == ".yaml"
getPipelineFileType(pipelineStatus) ==
    LET fileName == IF IsUsable(pipelineStatus.GitRelease)
                    THEN pipelineStatus.GitRelease
                    ELSE pipelineStatus.Url
    IN CASE fileName \in {"/basic.pipeline.tar.gz", "/digest1.pipeline.tar.gz",
                           "/bad.pipeline.tar.gz", "/digest2.pipeline.tar.gz",
                           "/digest2.pipeline.tgz", "/trigger.pipeline.tar.gz"}
              -> tarGzType
         [] fileName \in {"/single.pipeline.yaml", "/single.pipeline.yml"} -> yamlType
         [] OTHER -> ""

\* GetManifests, httpcache.go:442-481, on the outcome of DownloadToByte.
GetManifests(pipelineStatus, b) ==
    IF b = DownloadError \/ HexDecodeFails(pipelineStatus.Digest)
    THEN Failed
    ELSE LET fileType == getPipelineFileType(pipelineStatus)
         IN CASE fileType = tarGzType ->
                   IF b.Sum # HexSum(pipelineStatus.Digest)
                   THEN Failed
                   ELSE decodeManifests(b)
              [] fileType = yamlType -> processManifest(b, b.Sum)
              [] OTHER -> Failed

(***************************************************************************)
(* State.                                                                  *)
(*   objs   the objects of the cluster: owner UIDs by (namespace, name),   *)
(*          as the client of the controller tests keeps them.              *)
(*   pass   per stack, the locals of its pass of ActivatePipelines:        *)
(*          pc             position in the function                        *)
(*          assetUseMap    the use map                                     *)
(*          todo           keys the current range loop has yet to visit    *)
(*          cur, index     key and asset index the loops are at            *)
(*          mindex         next manifest the loop of line 247 looks at     *)
(*          u              owner references the last Get returned          *)
(*          err            the error ActivatePipelines returned            *)
(*          statusPairs, specPairs   the (key, version) pairs of the       *)
(*                         status and spec the pass was given              *)
(*          calls          the cluster and download calls made so far      *)
(*          passes         passes started by the stack                     *)
(*          b              what the last DownloadToByte returned           *)
(*          prev           use map, spec pairs and outcomes of the calls   *)
(*                         of the pass the stack ran before this one       *)
(*          certVerification   the map of that name, lines 98-108          *)
(*          specEntries    the (key, flag) pairs of the spec's entries     *)
(*          skipped        keys whose manifests were retrieved with the    *)
(*                         certificate verification skipped                *)
(*   mem    the memory of the operator process outside ActivatePipelines   *)
(*          in the specifications of the HTTP cache, of Retry, of the      *)
(*          admission webhook and of the Kabanero reconciler; its fields   *)
(*          are described where each of these starts.  It stays empty in   *)
(*          the specifications of the passes.                              *)
(***************************************************************************)
VARIABLES objs, pass, mem

vars == <<objs, pass, mem>>

\* The memory of a process that runs passes only.
NoMem == <<>>

ObjectKey(namespace, name) == [Namespace |-> namespace, Name |-> name]

NoKey == [Url |-> "", GitRelease |-> NoGitRelease, Digest |-> ""]

\* No download was made yet.
NoDownload == [Error |-> "no download"]

\* No pass was run before.
NoPrev == [ran |-> FALSE, assetUseMap |-> <<>>, outcomes |-> {}, specPairs |-> {}]

IdlePass ==
    [pc |-> "idle", assetUseMap |-> <<>>, todo |-> {}, cur |-> NoKey, index |-> 0,
     mindex |-> 0, u |-> <<>>, err |-> FALSE, statusPairs |-> {}, specPairs |-> {},
     calls |-> <<>>, passes |-> 0, b |-> NoDownload, prev |-> NoPrev,
     certVerification |-> <<>>, specEntries |-> {}, skipped |-> {}]

\* One entry of the call log: the call, the function making it, the pipeline
\* it is made for, the object, the owner references the function had read
\* before, those sent (or, for a Get, returned), the API group of the object
\* and the result: "ok", "notfound" or "error".
Call(op, by, ref, key, before, owners, group, result) ==
    [op |-> op, by |-> by, ref |-> ref, key |-> key, before |-> before,
     owners |-> owners, group |-> group, result |-> result]

(***************************************************************************)
(* The cluster object store: Get, Create, Update and Delete of the client, *)
(* stack_controller_test.go:403-483, each of which may also fail with an   *)
(* API error (fails).                                                      *)
(***************************************************************************)
ClientCreate(store, key, owners, fails) ==
    IF fails \/ key \in DOMAIN store
    THEN [ok |-> FALSE, objs |-> store]
    ELSE [ok |-> TRUE, objs |-> (key :> owners) @@ store]

ClientUpdate(store, key, owners, fails) ==
    IF fails \/ key \notin DOMAIN store
    THEN [ok |-> FALSE, objs |-> store]
    ELSE [ok |-> TRUE, objs |-> [store EXCEPT ![key] = owners]]

ClientDelete(store, key, fails) ==
    IF fails \/ key \notin DOMAIN store
    THEN [ok |-> FALSE, objs |-> store]
    ELSE [ok |-> TRUE, objs |-> [k \in DOMAIN store \ {key} |-> store[k]]]

\* Lines 147-149 and 202-205: an asset without namespace is in the target
\* namespace.
WithNamespace(asset) ==
    IF asset.Namespace = "" THEN [asset EXCEPT !.Namespace = targetNamespace] ELSE asset

\* A choice of namespace that never takes the one of the object.
alwaysDefaultNamespace(u, defaultNamespace) == defaultNamespace

\* getNamespaceForObject, lines 379-393.
getNamespaceForObject(u, defaultNamespace) ==
    IF u.Kind \in {"TriggerBinding", "TriggerTemplate", "EventListener"} /\ u.Namespace # ""
    THEN u.Namespace
    ELSE defaultNamespace

\* Lines 184-196: the asset status built for one decoded manifest.
NewAssetStatus(asset) ==
    [Name |-> asset.Name,
     Namespace |-> getNamespaceForObject(asset, targetNamespace),
     Group |-> asset.Group,
     Kind |-> asset.Kind,
     Digest |-> asset.Sha256,
     Status |-> AssetStatusUnknown,
     StatusMessage |-> "Asset has not been applied yet."]

\* A transformation that injects no owner reference.
InjectNoOwnerReference(u, uid) == <<>>

\* transforms.InjectOwnerReference, line 266: the owner references the
\* transformed manifest carries.  The object of a trigger kind that keeps
\* its own namespace is given none, as the controller test finds it
\* (stack_controller_test.go:1895-1911).
InjectOwnerReference(u, uid) ==
    IF u.Kind \in {"TriggerBinding", "TriggerTemplate", "EventListener"} /\ u.Namespace # ""
    THEN <<>>
    ELSE <<uid>>

\* A group check that lets every group through.
AnyGroup(group) == TRUE

\* Line 254: the groups ActivatePipelines creates objects of.
AllowedGroup(group) == group = "tekton.dev" \/ group = "triggers.tekton.dev"

\* An owner filter that keeps no reference at all.
WithoutAnyOwner(ownerRefs, uid) == <<>>

\* The owner references without those of uid, lines 352-357.
RECURSIVE WithoutOwner(_, _)
WithoutOwner(ownerRefs, uid) ==
    IF ownerRefs = <<>> THEN <<>>
    ELSE IF Head(ownerRefs) # uid
         THEN <<Head(ownerRefs)>> \o WithoutOwner(Tail(ownerRefs), uid)
         ELSE WithoutOwner(Tail(ownerRefs), uid)

\* An owner list that is replaced by the stack's reference.
OnlyOwner(ownerRefs, uid) == <<uid>>

\* Line 306: the stack's reference appended to the owner references found.
WithOwner(ownerRefs, uid) == Append(ownerRefs, uid)

\* An owner search that never finds the stack.
neverFoundOurselves(ownerRefs, uid) == FALSE

\* Lines 295-300.
foundOurselves(ownerRefs, uid) == \E i \in DOMAIN ownerRefs : ownerRefs[i] = uid

\* What the server holds at each location.
Served(pipelineStatus) ==
    CASE pipelineStatus.Url = "/basic.pipeline.tar.gz" -> {basicArchive}
      [] pipelineStatus.Url = "/digest1.pipeline.tar.gz" -> {digest1Archive}
      [] pipelineStatus.Url = "/bad.pipeline.tar.gz" -> BadArchives
      [] pipelineStatus.Url = "/trigger.pipeline.tar.gz" -> TriggerArchives
      [] pipelineStatus.Url \in {"/digest2.pipeline.tar.gz", "/digest2.pipeline.tgz",
                                 "/digest2.pipeline.zip"} -> {digest2Archive}
      [] pipelineStatus.Url \in {"/single.pipeline.yaml", "/single.pipeline.yml"} -> {singleYaml}
      [] OTHER -> {}

\* DownloadToByte, httpcache.go:185-208: the bytes served or an error.
DownloadToByte(pipelineStatus) == {DownloadError} \cup Served(pipelineStatus)

SetPass(s, p) ==
    /\ pass' = [pass EXCEPT ![s] = p]
    /\ UNCHANGED mem

\* A delete range that takes no entry.
DeletesNoAssets(value) == FALSE

\* A delete range that takes every entry.
DeletesAllAssets(value) == TRUE

\* A delete range that leaves out the entries with a use count of 0.
DeletesAssetsNegative(value) == value.useCount < 0

\* A delete range that also takes the entries used once.
DeletesAssetsUsedOnce(value) == value.useCount <= 1

\* Line 142: the entries whose assets are deleted.
DeletesAssets(value) == value.useCount <= 0

\* Line 157: the entries whose assets are ensured.
CreatesAssets(value) == value.useCount > 0

\* No other stack is in the middle of a pass.
Alone(s) == \A t \in Stacks \ {s} : pass[t].pc \in {"idle", "done"}

(***************************************************************************)
(* ActivatePipelines, lines 60-94: the use map is seeded from the status   *)
(* and assetsToDecrement is filled.  The status is an input of the pass.   *)
(***************************************************************************)
SeedUseMap(s, statusChoices, recordedChoices) ==
    /\ pass[s].pc = "idle"
    /\ Alone(s)
    /\ \E status \in statusChoices, recorded \in recordedChoices :
          SetPass(s, [IdlePass EXCEPT
                        !.pc = "seeded",
                        !.assetUseMap = SeedVersions(<<>>, status, recorded),
                        !.statusPairs = PairsOf(status),
                        !.passes = pass[s].passes + 1,
                        !.prev = pass[s].prev])
    /\ UNCHANGED objs

(***************************************************************************)
(* ActivatePipelines, lines 96-137: the spec is read, the decrement and    *)
(* increment sets are applied.  The spec is an input of the pass.          *)
(***************************************************************************)
UpdateUseMap(s, specChoices) ==
    /\ pass[s].pc = "seeded"
    /\ \E spec \in specChoices :
          LET updated == UpdateUseCounts(pass[s].assetUseMap, pass[s].statusPairs, spec)
          IN IF updated.err
             THEN SetPass(s, [pass[s] EXCEPT !.pc = "done", !.err = TRUE,
                                             !.specPairs = PairsOf(spec),
                                             !.certVerification = certVerification(spec),
                                             !.specEntries = EntriesOf(spec)])
             ELSE SetPass(s, [pass[s] EXCEPT !.pc = "delete",
                                             !.assetUseMap = updated.useMap,
                                             !.todo = DOMAIN updated.useMap,
                                             !.specPairs = PairsOf(spec),
                                             !.certVerification = certVerification(spec),
                                             !.specEntries = EntriesOf(spec)])
    /\ UNCHANGED objs

(***************************************************************************)
(* Lines 141-154: the range over the use map that deletes the assets of    *)
(* the entries with a use count of 0 or less; a map is ranged over in any  *)
(* order.  When the range is over, the range of line 156 starts.           *)
(***************************************************************************)
DeleteLoop(s) ==
    /\ pass[s].pc = "delete"
    /\ IF pass[s].todo = {}
       THEN SetPass(s, [pass[s] EXCEPT !.pc = "ensure", !.todo = DOMAIN pass[s].assetUseMap])
       ELSE \E key \in pass[s].todo :
               LET value == pass[s].assetUseMap[key]
               IN IF DeletesAssets(value) /\ Len(value.ActiveAssets) > 0
                  THEN SetPass(s, [pass[s] EXCEPT !.pc = "DeleteAsset", !.cur = key, !.index = 1])
                  ELSE SetPass(s, [pass[s] EXCEPT !.todo = @ \ {key}])
    /\ UNCHANGED objs

\* The delete loop after the DeleteAsset call for the asset at index.
AfterDeleteAsset(p) ==
    IF p.index < Len(p.assetUseMap[p.cur].ActiveAssets)
    THEN [p EXCEPT !.pc = "DeleteAsset", !.index = @ + 1, !.u = <<>>]
    ELSE [p EXCEPT !.pc = "delete", !.todo = @ \ {p.cur}, !.cur = NoKey, !.index = 0, !.u = <<>>]

\* A DeleteAsset that ignores no asset.
IgnoresNoAsset(asset) == FALSE

\* Line 327: the assets DeleteAsset does nothing for.
IgnoresAsset(asset) ==
    asset.Status = AssetStatusUnknown \/ asset.Status = AssetStatusFailed

(***************************************************************************)
(* DeleteAsset, lines 326-349: nothing for an asset recorded as failed or  *)
(* unknown, else the Get of the object.                                    *)
(***************************************************************************)
DeleteAssetGet(s) ==
    /\ pass[s].pc = "DeleteAsset"
    /\ LET p == pass[s]
           asset == WithNamespace(p.assetUseMap[p.cur].ActiveAssets[p.index])
           key == ObjectKey(asset.Namespace, asset.Name)
       IN IF IgnoresAsset(asset)
          THEN SetPass(s, AfterDeleteAsset(p))
          ELSE \E fails \in BOOLEAN :
                  LET found == ~fails /\ key \in DOMAIN objs
                      logged == [p EXCEPT !.calls = Append(@,
                                    Call("Get", "DeleteAsset", p.cur, key, <<>>,
                                         IF found THEN objs[key] ELSE <<>>, asset.Group,
                                         IF fails THEN "error" ELSE IF found THEN "ok" ELSE "notfound"))]
                  IN IF found
                     THEN SetPass(s, [logged EXCEPT !.pc = "DeleteAssetWrite", !.u = objs[key]])
                     ELSE SetPass(s, AfterDeleteAsset(logged))
    /\ UNCHANGED objs

(***************************************************************************)
(* DeleteAsset, lines 350-373: the object is deleted when no owner other   *)
(* than the stack is left, else updated with the remaining owners.         *)
(***************************************************************************)
DeleteAssetWrite(s) ==
    /\ pass[s].pc = "DeleteAssetWrite"
    /\ \E fails \in BOOLEAN :
          LET p == pass[s]
              asset == WithNamespace(p.assetUseMap[p.cur].ActiveAssets[p.index])
              key == ObjectKey(asset.Namespace, asset.Name)
              newOwnerRefs == WithoutOwner(p.u, s)
              result == IF Len(newOwnerRefs) = 0
                        THEN ClientDelete(objs, key, fails)
                        ELSE ClientUpdate(objs, key, newOwnerRefs, fails)
              op == IF Len(newOwnerRefs) = 0 THEN "Delete" ELSE "Update"
          IN /\ objs' = result.objs
             /\ SetPass(s, AfterDeleteAsset([p EXCEPT !.calls = Append(@,
                              Call(op, "DeleteAsset", p.cur, key, p.u, newOwnerRefs, asset.Group,
                                   IF result.ok THEN "ok" ELSE "error"))]))

(***************************************************************************)
(* Lines 156-162 and 322: the range over the use map that ensures the      *)
(* assets of the entries with a positive use count; when it is over the    *)
(* use map is returned.                                                    *)
(***************************************************************************)
EnsureLoop(s) ==
    /\ pass[s].pc = "ensure"
    /\ IF pass[s].todo = {}
       THEN SetPass(s, [pass[s] EXCEPT !.pc = "done"])
       ELSE \E key \in pass[s].todo :
               LET value == pass[s].assetUseMap[key]
               IN IF CreatesAssets(value)
                  THEN IF Len(value.ActiveAssets) = 0
                       THEN SetPass(s, [pass[s] EXCEPT !.pc = "GetManifests", !.cur = key])
                       ELSE SetPass(s, [pass[s] EXCEPT !.pc = "Get", !.cur = key, !.index = 1])
                  ELSE SetPass(s, [pass[s] EXCEPT !.todo = @ \ {key}])
    /\ UNCHANGED objs

\* The range of line 156 moves to the next key.
NextKey(p) ==
    [p EXCEPT !.pc = "ensure", !.todo = @ \ {p.cur}, !.cur = NoKey, !.index = 0,
              !.mindex = 0, !.u = <<>>]

\* The range of line 200 moves to the next asset.
NextAsset(p) ==
    IF p.index < Len(p.assetUseMap[p.cur].ActiveAssets)
    THEN [p EXCEPT !.pc = "Get", !.index = @ + 1, !.mindex = 0, !.u = <<>>]
    ELSE NextKey(p)

\* An error of GetManifests after which the retrieval is tried once more.
ManifestsFailedRetried(p) ==
    IF p.assetUseMap[p.cur].ManifestError
    THEN NextKey(p)
    ELSE [p EXCEPT !.assetUseMap[p.cur].ManifestError = TRUE, !.pc = "GetManifests"]

\* An error of GetManifests that ActivatePipelines returns in the end.
ManifestsFailedWithError(p) ==
    [p EXCEPT !.assetUseMap[p.cur].ManifestError = TRUE, !.err = TRUE,
              !.pc = "ensure", !.todo = @ \ {p.cur}, !.cur = NoKey]

\* An error of GetManifests that ends the pass.
ManifestsFailedReturns(p) ==
    [p EXCEPT !.assetUseMap[p.cur].ManifestError = TRUE, !.pc = "done", !.todo = {}]

\* Lines 174-178: the error of GetManifests is kept in the entry and the
\* range continues with the next key.
ManifestsFailed(p) == NextKey([p EXCEPT !.assetUseMap[p.cur].ManifestError = TRUE])

(***************************************************************************)
(* Lines 162-197: an entry without asset list retrieves its manifests; on  *)
(* an error the entry is skipped, else the asset list is built.            *)
(***************************************************************************)
FetchManifests(s) ==
    /\ pass[s].pc = "GetManifests"
    /\ \E b \in DownloadToByte(pass[s].assetUseMap[pass[s].cur]) :
          LET p == pass[s]
              value == p.assetUseMap[p.cur]
              result == GetManifests(value, b)
              logged == [p EXCEPT !.b = b,
                            !.skipped = IF SkipFor(p.certVerification, p.cur)
                                        THEN @ \cup {p.cur} ELSE @,
                            !.calls = Append(@,
                            Call("GetManifests", "ActivatePipelines", p.cur, ObjectKey("", ""),
                                 <<>>, <<>>, "", IF result.err THEN "error" ELSE "ok"))]
          IN IF result.err
             THEN SetPass(s, ManifestsFailed(logged))
             ELSE LET built == [logged EXCEPT
                                  !.assetUseMap[p.cur].manifests = result.manifests,
                                  !.assetUseMap[p.cur].ActiveAssets =
                                      [i \in DOMAIN result.manifests |-> NewAssetStatus(result.manifests[i])]]
                  IN IF Len(result.manifests) = 0
                     THEN SetPass(s, NextKey(built))
                     ELSE SetPass(s, [built EXCEPT !.pc = "Get", !.index = 1])
    /\ UNCHANGED objs

(***************************************************************************)
(* Lines 200-224 and 292-302, 315-316: the Get of the asset's object.  An  *)
(* error leaves the asset unknown; an object that has the stack among its  *)
(* owners leaves it active.                                                *)
(***************************************************************************)
EnsureGet(s) ==
    /\ pass[s].pc = "Get"
    /\ \E fails \in BOOLEAN :
          LET p == pass[s]
              asset == WithNamespace(p.assetUseMap[p.cur].ActiveAssets[p.index])
              key == ObjectKey(asset.Namespace, asset.Name)
              logged == [p EXCEPT
                           !.assetUseMap[p.cur].ActiveAssets[p.index].Namespace = asset.Namespace,
                           !.calls = Append(@, Call("Get", "ActivatePipelines", p.cur, key, <<>>,
                                  IF ~fails /\ key \in DOMAIN objs THEN objs[key] ELSE <<>>,
                                  asset.Group,
                                  IF fails THEN "error"
                                  ELSE IF key \in DOMAIN objs THEN "ok" ELSE "notfound"))]
          IN IF fails
             THEN SetPass(s, NextAsset([logged EXCEPT
                     !.assetUseMap[p.cur].ActiveAssets[p.index].Status = AssetStatusUnknown,
                     !.assetUseMap[p.cur].ActiveAssets[p.index].StatusMessage = "Unable to check asset"]))
             ELSE IF key \notin DOMAIN objs
             THEN IF Len(p.assetUseMap[p.cur].manifests) = 0
                  THEN SetPass(s, [logged EXCEPT !.pc = "GetManifestsAgain"])
                  ELSE SetPass(s, [logged EXCEPT !.pc = "Apply", !.mindex = 1])
             ELSE IF foundOurselves(objs[key], s)
             THEN SetPass(s, NextAsset([logged EXCEPT
                     !.assetUseMap[p.cur].ActiveAssets[p.index].Status = AssetStatusActive,
                     !.assetUseMap[p.cur].ActiveAssets[p.index].StatusMessage = ""]))
             ELSE SetPass(s, [logged EXCEPT !.pc = "Update", !.u = objs[key]])
    /\ UNCHANGED objs

\* A failed retrieval for an object not found that leaves the asset as it
\* was recorded.
ManifestsUnavailableUnrecorded(p) == p

\* Lines 237-239: the asset whose object was not found and whose manifests
\* cannot be retrieved is failed.
ManifestsUnavailable(p) ==
    [p EXCEPT !.assetUseMap[p.cur].ActiveAssets[p.index].Status = AssetStatusFailed,
              !.assetUseMap[p.cur].ActiveAssets[p.index].StatusMessage =
                  "Manifests are no longer available at specified URL"]

(***************************************************************************)
(* Lines 225-244: the manifests of an entry whose object was not found     *)
(* are retrieved when none are loaded.                                     *)
(***************************************************************************)
FetchManifestsAgain(s) ==
    /\ pass[s].pc = "GetManifestsAgain"
    /\ \E b \in DownloadToByte(pass[s].assetUseMap[pass[s].cur]) :
          LET p == pass[s]
              value == p.assetUseMap[p.cur]
              result == GetManifests(value, b)
              logged == [p EXCEPT !.pc = "Apply", !.mindex = 1, !.b = b,
                                  !.skipped = IF SkipFor(p.certVerification, p.cur)
                                              THEN @ \cup {p.cur} ELSE @,
                                  !.calls = Append(@,
                            Call("GetManifests", "ActivatePipelines", p.cur, ObjectKey("", ""),
                                 <<>>, <<>>, "", IF result.err THEN "error" ELSE "ok"))]
          IN IF result.err
             THEN SetPass(s, ManifestsUnavailable(logged))
             ELSE SetPass(s, [logged EXCEPT !.assetUseMap[p.cur].manifests = result.manifests])
    /\ UNCHANGED objs

\* A search that finds no manifest for an asset.
NeverSameName(asset, manifest) == FALSE

\* Line 248: the manifest is the one of the asset.
SameName(asset, manifest) == asset.Name = manifest.Name

\* The text line 274 stores in the Status field of the asset.
TransformErrorText == "transform error"

\* The text of the error of a failed Apply.
ApplyErrorText == "apply error"

\* An Apply whose error is not recorded.
AppliedAlwaysActive(p, ok) ==
    [p EXCEPT !.assetUseMap[p.cur].ActiveAssets[p.index].Status = AssetStatusActive,
              !.assetUseMap[p.cur].ActiveAssets[p.index].StatusMessage = ""]

\* Lines 278-286: the asset after Apply has returned.
Applied(p, ok) ==
    IF ok
    THEN [p EXCEPT !.assetUseMap[p.cur].ActiveAssets[p.index].Status = AssetStatusActive,
                   !.assetUseMap[p.cur].ActiveAssets[p.index].StatusMessage = ""]
    ELSE [p EXCEPT !.assetUseMap[p.cur].ActiveAssets[p.index].Status = AssetStatusFailed,
                   !.assetUseMap[p.cur].ActiveAssets[p.index].StatusMessage = ApplyErrorText]

(***************************************************************************)
(* Lines 246-290: the next manifest with the name of the asset is          *)
(* rejected when its group is not allowed, else transformed (owner         *)
(* reference and namespace injected) and applied.  Apply creates the       *)
(* object; on an object that exists by then it updates it, with the        *)
(* owners of the manifest or merged into those present.                    *)
(***************************************************************************)
ApplyManifest(s) ==
    /\ pass[s].pc = "Apply"
    /\ LET p == pass[s]
           value == p.assetUseMap[p.cur]
           asset == value.ActiveAssets[p.index]
           matching == {j \in p.mindex..Len(value.manifests) : SameName(asset, value.manifests[j])}
       IN IF matching = {}
          THEN /\ SetPass(s, NextAsset(p))
               /\ UNCHANGED objs
          ELSE LET j == CHOOSE m \in matching : \A n \in matching : m <= n
                   manifest == value.manifests[j]
                   key == ObjectKey(asset.Namespace, manifest.Name)
                   q == [p EXCEPT !.mindex = j + 1]
               IN IF ~AllowedGroup(manifest.Group)
                  THEN /\ SetPass(s, [q EXCEPT
                            !.assetUseMap[p.cur].ActiveAssets[p.index].Status = AssetStatusFailed,
                            !.assetUseMap[p.cur].ActiveAssets[p.index].StatusMessage =
                                "Manifest rejected: contains a Group not equal to tekton.dev or triggers.tekton.dev"])
                       /\ UNCHANGED objs
                  ELSE \/ /\ SetPass(s, [q EXCEPT
                               !.assetUseMap[p.cur].ActiveAssets[p.index].Status = TransformErrorText,
                               !.calls = Append(@, Call("Transform", "Apply", p.cur, key, <<>>,
                                                        InjectOwnerReference(manifest, s),
                                                        manifest.Group, "error"))])
                          /\ UNCHANGED objs
                       \/ \E fails \in BOOLEAN, merged \in BOOLEAN :
                             LET present == IF key \in DOMAIN objs THEN objs[key] ELSE <<>>
                                 injected == InjectOwnerReference(manifest, s)
                                 owners == IF merged /\ key \in DOMAIN objs
                                           THEN (IF foundOurselves(present, s)
                                                 THEN present ELSE present \o injected)
                                           ELSE injected
                                 result == IF key \in DOMAIN objs
                                           THEN ClientUpdate(objs, key, owners, fails)
                                           ELSE ClientCreate(objs, key, owners, fails)
                                 op == IF key \in DOMAIN objs THEN "Update" ELSE "Create"
                                 logged == [q EXCEPT !.calls = Append(@,
                                               Call(op, "Apply", p.cur, key, present, owners,
                                                    manifest.Group,
                                                    IF result.ok THEN "ok" ELSE "error"))]
                             IN /\ objs' = result.objs
                                /\ SetPass(s, Applied(logged, result.ok))

(***************************************************************************)
(* Lines 302-316: the stack's owner reference is appended to those of the  *)
(* object found and the object is updated; the asset is active whether or  *)
(* not the Update succeeded.                                               *)
(***************************************************************************)
AddOwnerReference(s) ==
    /\ pass[s].pc = "Update"
    /\ \E fails \in BOOLEAN :
          LET p == pass[s]
              asset == p.assetUseMap[p.cur].ActiveAssets[p.index]
              key == ObjectKey(asset.Namespace, asset.Name)
              ownerRefs == WithOwner(p.u, s)
              result == ClientUpdate(objs, key, ownerRefs, fails)
          IN /\ objs' = result.objs
             /\ SetPass(s, NextAsset([p EXCEPT
                   !.assetUseMap[p.cur].ActiveAssets[p.index].Status = AssetStatusActive,
                   !.assetUseMap[p.cur].ActiveAssets[p.index].StatusMessage = "",
                   !.calls = Append(@, Call("Update", "ActivatePipelines", p.cur, key, p.u,
                                            ownerRefs, asset.Group,
                                            IF result.ok THEN "ok" ELSE "error"))]))

(***************************************************************************)
(* The inputs of the passes and the cluster they start on.                 *)
(***************************************************************************)
\* An asset status as a status records it.
Recorded(doc, namespace, status) ==
    [Name |-> doc.Name, Namespace |-> namespace, Group |-> doc.Group, Kind |-> doc.Kind,
     Digest |-> "", Status |-> status, StatusMessage |-> ""]

\* The asset lists a status may record for each key.
RecordedAssets ==
    {[k \in {KeyOf(r) : r \in PipelineRefs} |->
         IF k = KeyOf(basicPipeline) THEN b ELSE d] :
        b \in {<<>>,
               <<Recorded(buildTask, "", AssetStatusActive),
                 Recorded(buildPipeline, "", AssetStatusActive)>>,
               <<Recorded(buildTask, targetNamespace, AssetStatusFailed),
                 Recorded(buildPipeline, targetNamespace, AssetStatusActive)>>},
        d \in {<<>>,
               <<Recorded(buildPipeline, "", AssetStatusActive),
                 Recorded(deployment, "", AssetStatusActive)>>,
               <<Recorded(buildPipeline, targetNamespace, AssetStatusActive),
                 Recorded(deployment, targetNamespace, AssetStatusUnknown)>>}}

\* The owner references an object may start with.
InitialOwners == {<<>>, <<myuid>>, <<otheruid>>, <<otheruid, myuid>>}

\* The clusters a pass may start on: any of the objects of the archives,
\* with any of the owner lists.
InitialClusters ==
    UNION {[present -> InitialOwners] :
             present \in SUBSET {ObjectKey(targetNamespace, d.Name) :
                                    d \in {buildTask, buildPipeline, deployment}}}

\* The pipeline lists of a stack with one version, each pipeline at most once.
OneVersion ==
    {<<[Version |-> Versions[1], Pipelines |-> l]>> :
        l \in {<<>>, <<basicPipeline>>, <<digest1Pipeline>>, <<basicPipeline, digest1Pipeline>>}}

Init ==
    /\ objs \in InitialClusters
    /\ pass = [s \in Stacks |-> IdlePass]
    /\ mem = NoMem

\* One pass of the stack myuid over a cluster in any state, for a stack of
\* one version.
Next ==
    \/ SeedUseMap(myuid, OneVersion, RecordedAssets)
    \/ UpdateUseMap(myuid, OneVersion)
    \/ DeleteLoop(myuid)
    \/ DeleteAssetGet(myuid)
    \/ DeleteAssetWrite(myuid)
    \/ EnsureLoop(myuid)
    \/ FetchManifests(myuid)
    \/ EnsureGet(myuid)
    \/ FetchManifestsAgain(myuid)
    \/ ApplyManifest(myuid)
    \/ AddOwnerReference(myuid)

Spec == Init /\ [][Next]_vars

\* The status of a stack whose assets are all recorded as active.
AllActive ==
    [k \in {KeyOf(r) : r \in PipelineRefs} |->
        IF k = KeyOf(basicPipeline)
        THEN <<Recorded(buildTask, "", AssetStatusActive),
               Recorded(buildPipeline, "", AssetStatusActive)>>
        ELSE <<Recorded(buildPipeline, "", AssetStatusActive),
               Recorded(deployment, "", AssetStatusActive)>>]

InitCount ==
    /\ objs = (ObjectKey(targetNamespace, buildTask.Name) :> <<otheruid>>)
              @@ (ObjectKey(targetNamespace, buildPipeline.Name) :> <<otheruid, myuid>>)
    /\ pass = [s \in Stacks |-> IdlePass]
    /\ mem = NoMem

\* One pass of the stack myuid for every status and spec of two versions
\* with pipeline lists of up to MaxPipelines entries.
NextCount ==
    \/ SeedUseMap(myuid, VersionLists(PipelineRefs), {AllActive})
    \/ UpdateUseMap(myuid, VersionLists(PipelineRefs))
    \/ DeleteLoop(myuid)
    \/ DeleteAssetGet(myuid)
    \/ DeleteAssetWrite(myuid)
    \/ EnsureLoop(myuid)
    \/ FetchManifests(myuid)
    \/ EnsureGet(myuid)
    \/ FetchManifestsAgain(myuid)
    \/ ApplyManifest(myuid)
    \/ AddOwnerReference(myuid)

SpecCount == InitCount /\ [][NextCount]_vars

\* The controller calls ActivatePipelines again for a stack whose pass is
\* over.
NextPass(s) ==
    /\ pass[s].pc = "done"
    /\ pass[s].passes < MaxPasses
    /\ SetPass(s, [IdlePass EXCEPT !.passes = pass[s].passes])
    /\ UNCHANGED objs

\* A stack of one version that has the basic pipeline or none.
BasicOrNone ==
    {<<[Version |-> Versions[1], Pipelines |-> l]>> : l \in {<<>>, <<basicPipeline>>}}

\* The status records the assets of the basic pipeline as active, or none.
ActiveOrNone ==
    {[k \in {KeyOf(r) : r \in PipelineRefs} |-> IF k = KeyOf(basicPipeline) THEN b ELSE <<>>] :
        b \in {<<>>, AllActive[KeyOf(basicPipeline)]}}

InitShared ==
    /\ objs = <<>>
    /\ pass = [s \in Stacks |-> IdlePass]
    /\ mem = NoMem

\* Two stacks that activate and deactivate the same pipeline on an empty
\* cluster, one pass after the other, MaxPasses passes each.
NextShared ==
    \E s \in Stacks :
        \/ SeedUseMap(s, BasicOrNone, ActiveOrNone)
        \/ UpdateUseMap(s, BasicOrNone)
        \/ DeleteLoop(s)
        \/ DeleteAssetGet(s)
        \/ DeleteAssetWrite(s)
        \/ EnsureLoop(s)
        \/ FetchManifests(s)
        \/ EnsureGet(s)
        \/ FetchManifestsAgain(s)
        \/ ApplyManifest(s)
        \/ AddOwnerReference(s)
        \/ NextPass(s)

SpecShared == InitShared /\ [][NextShared]_vars

\* A stack of one version that has one pipeline of refs.
OnePipeline(refs) ==
    {<<[Version |-> Versions[1], Pipelines |-> <<r>>]>> : r \in refs}

\* A status without pipelines.
NoPipelines == {<<[Version |-> Versions[1], Pipelines |-> <<>>]>>}

InitArchive ==
    /\ objs = <<>>
    /\ pass = [s \in Stacks |-> IdlePass]
    /\ mem = NoMem

\* The first activation, on an empty cluster, of a stack whose pipeline is
\* an archive of any content, or a file of any of the types with any of
\* the digests.
NextArchive ==
    \/ SeedUseMap(myuid, NoPipelines, {<<>>})
    \/ UpdateUseMap(myuid, OnePipeline({badPipeline} \cup DigestRefs))
    \/ DeleteLoop(myuid)
    \/ EnsureLoop(myuid)
    \/ FetchManifests(myuid)
    \/ EnsureGet(myuid)
    \/ ApplyManifest(myuid)

SpecArchive == InitArchive /\ [][NextArchive]_vars

\* A status of two versions, each with a pipeline of its own whose assets
\* are recorded as active; the second may have none recorded yet.
TwoVersions ==
    {<<[Version |-> Versions[1], Pipelines |-> <<digest1Pipeline>>],
       [Version |-> Versions[2], Pipelines |-> <<digest2Pipeline>>]>>}
TwoRecorded ==
    {(KeyOf(digest1Pipeline) :> <<Recorded(buildPipeline, "", AssetStatusActive),
                                  Recorded(deployment, "", AssetStatusActive)>>)
     @@ (KeyOf(digest2Pipeline) :> d) :
        d \in {<<>>, <<Recorded(buildTask, "", AssetStatusActive)>>}}

\* The specs that keep both versions, one of them or none: a version is
\* left out or has no pipeline any more.
KeepSomeVersions ==
    LET st == CHOOSE status \in TwoVersions : TRUE
        emptied(i) == [Version |-> Versions[i], Pipelines |-> <<>>]
    IN {<<a, b>> : a \in {st[1], emptied(1)}, b \in {st[2], emptied(2)}}
       \cup {<<st[1]>>, <<st[2]>>}

\* The clusters of the two versions: each object of the two pipelines is
\* missing, owned by the stack, by another, or by both.
InitTwo ==
    /\ objs \in UNION {[present -> {<<myuid>>, <<otheruid>>, <<otheruid, myuid>>}] :
                          present \in SUBSET {ObjectKey(targetNamespace, d.Name) :
                                                 d \in {buildTask, buildPipeline, deployment}}}
    /\ pass = [s \in Stacks |-> IdlePass]
    /\ mem = NoMem

\* One pass of a stack with two active versions.
NextTwo ==
    \/ SeedUseMap(myuid, TwoVersions, TwoRecorded)
    \/ UpdateUseMap(myuid, KeepSomeVersions)
    \/ DeleteLoop(myuid)
    \/ DeleteAssetGet(myuid)
    \/ DeleteAssetWrite(myuid)
    \/ EnsureLoop(myuid)
    \/ FetchManifests(myuid)
    \/ EnsureGet(myuid)
    \/ FetchManifestsAgain(myuid)
    \/ ApplyManifest(myuid)
    \/ AddOwnerReference(myuid)

SpecTwo == InitTwo /\ [][NextTwo]_vars

\* The pipelines a stack may activate first.
FirstRefs == {basicPipeline, digest1Pipeline, triggerPipeline}

\* The specs of a first activation: each version has one of the pipelines
\* or none; the pipeline of triggers is the only one of its spec.
FirstSpecs ==
    {[i \in 1..Len(Versions) |-> [Version |-> Versions[i], Pipelines |-> f[i]]] :
        f \in {g \in [1..Len(Versions) -> {<<>>} \cup {<<r>> : r \in FirstRefs}] :
                  \A i, j \in 1..Len(Versions) :
                      (g[i] = <<triggerPipeline>> /\ g[j] # <<>>) => g[j] = g[i]}}

\* The clusters the first activation starts on: empty, or with a trigger
\* template of another stack.
InitFirst ==
    /\ objs \in {<<>>, ObjectKey("tekton-pipelines", "build-trigger-template") :> <<otheruid>>}
    /\ pass = [s \in Stacks |-> IdlePass]
    /\ mem = NoMem

\* The first activation of a stack, whose status is empty.
NextFirst ==
    \/ SeedUseMap(myuid, NoPipelines, {<<>>})
    \/ UpdateUseMap(myuid, FirstSpecs)
    \/ DeleteLoop(myuid)
    \/ EnsureLoop(myuid)
    \/ FetchManifests(myuid)
    \/ EnsureGet(myuid)
    \/ ApplyManifest(myuid)
    \/ AddOwnerReference(myuid)

SpecFirst == InitFirst /\ [][NextFirst]_vars

\* The pass of a stack starts while the pass of another stack may be under
\* way; each stack makes one pass.
SeedUseMapConcurrently(s, statusChoices, recordedChoices) ==
    /\ pass[s].pc = "idle"
    /\ pass[s].passes = 0
    /\ \E status \in statusChoices, recorded \in recordedChoices :
          SetPass(s, [IdlePass EXCEPT
                        !.pc = "seeded",
                        !.assetUseMap = SeedVersions(<<>>, status, recorded),
                        !.statusPairs = PairsOf(status),
                        !.passes = 1])
    /\ UNCHANGED objs

\* The objects of the basic pipeline are missing, or both are there with
\* one of the stacks or both as owners.
RaceClusters ==
    {<<>>} \cup
    {(ObjectKey(targetNamespace, buildTask.Name) :> owners)
        @@ (ObjectKey(targetNamespace, buildPipeline.Name) :> owners) :
        owners \in {<<myuid>>, <<otheruid>>, <<myuid, otheruid>>}}

InitRace ==
    /\ objs \in RaceClusters
    /\ pass = [s \in Stacks |-> IdlePass]
    /\ mem = NoMem

\* Two stacks activate or deactivate the basic pipeline, one pass each, the
\* calls of the two passes interleaved in any way.
NextRace ==
    \E s \in Stacks :
        \/ SeedUseMapConcurrently(s, BasicOrNone, ActiveOrNone)
        \/ UpdateUseMap(s, BasicOrNone)
        \/ DeleteLoop(s)
        \/ DeleteAssetGet(s)
        \/ DeleteAssetWrite(s)
        \/ EnsureLoop(s)
        \/ FetchManifests(s)
        \/ EnsureGet(s)
        \/ FetchManifestsAgain(s)
        \/ ApplyManifest(s)
        \/ AddOwnerReference(s)

SpecRace == InitRace /\ [][NextRace]_vars

\* The pipelines whose content need not be what a status has recorded: the
\* .yaml and .yml files, whose checksum is not enforced.
StaleRefs ==
    {[Url |-> u, GitRelease |-> NoGitRelease, Digest |-> "5151"] :
        u \in {"/single.pipeline.yaml", "/single.pipeline.yml"}}

\* The status records, for each of these pipelines, the task as active, or
\* the task and the pipeline.
StaleRecorded ==
    {[k \in {KeyOf(r) : r \in StaleRefs} |-> assets] :
        assets \in {<<Recorded(buildTask, "", AssetStatusActive)>>,
                    <<Recorded(buildTask, "", AssetStatusActive),
                      Recorded(buildPipeline, "", AssetStatusActive)>>}}

\* The cluster is empty, or has the pipeline object, or both objects, owned
\* by one of the stacks.
StaleClusters ==
    {<<>>} \cup
    UNION {{ObjectKey(targetNamespace, buildPipeline.Name) :> owners,
            (ObjectKey(targetNamespace, buildTask.Name) :> owners)
                @@ (ObjectKey(targetNamespace, buildPipeline.Name) :> owners)} :
           owners \in {<<myuid>>, <<otheruid>>}}

InitStale ==
    /\ objs \in StaleClusters
    /\ pass = [s \in Stacks |-> IdlePass]
    /\ mem = NoMem

\* One pass of a stack whose status has recorded the assets of a pipeline
\* whose file has another content by now, and whose spec keeps the
\* pipeline, replaces it or drops it.
NextStale ==
    \/ SeedUseMap(myuid, OnePipeline(StaleRefs), StaleRecorded)
    \/ UpdateUseMap(myuid, OnePipeline(StaleRefs) \cup NoPipelines)
    \/ DeleteLoop(myuid)
    \/ DeleteAssetGet(myuid)
    \/ DeleteAssetWrite(myuid)
    \/ EnsureLoop(myuid)
    \/ FetchManifests(myuid)
    \/ EnsureGet(myuid)
    \/ FetchManifestsAgain(myuid)
    \/ ApplyManifest(myuid)
    \/ AddOwnerReference(myuid)

SpecStale == InitStale /\ [][NextStale]_vars

\* The basic pipeline as a spec lists it, with and without the flag
\* SkipCertVerification.
CertRefs ==
    {[Url |-> basicPipeline.Url, GitRelease |-> NoGitRelease, Digest |-> basicPipeline.Digest,
      SkipCertVerification |-> skip] : skip \in BOOLEAN}

\* One pass of the stack myuid on an empty cluster, for a status that has
\* the basic pipeline without assets, or nothing, and for every spec of two
\* versions whose entries set the flag or not.
NextCert ==
    \/ SeedUseMap(myuid, BasicOrNone, {[k \in {KeyOf(r) : r \in PipelineRefs} |-> <<>>]})
    \/ UpdateUseMap(myuid, VersionLists(CertRefs))
    \/ DeleteLoop(myuid)
    \/ EnsureLoop(myuid)
    \/ FetchManifests(myuid)
    \/ EnsureGet(myuid)
    \/ ApplyManifest(myuid)

SpecCert == InitArchive /\ [][NextCert]_vars

(***************************************************************************)
(* The HTTP cache, httpcache.go:17-137, and the ticker of timer.go:36-54.  *)
(* In SpecCache mem has the fields                                         *)
(*   httpCache   the map of that name: URL to etag, date, body, lastUsed   *)
(*   cacheLock   the goroutine that holds the mutex, or NoHolder           *)
(*   once        startPurgeTicker has run its function                     *)
(*   scheduled   the number of calls of ScheduleWork                       *)
(*   now         the clock                                                 *)
(*   get         per goroutine, the locals of its call of GetFromCache; on *)
(*               return, the status of the response and what was returned  *)
(*   purge       the locals of purgeCache on the ticker goroutine and the  *)
(*               last decision it took                                     *)
(*   stored      the (URL, body) pairs ever put in the map                 *)
(***************************************************************************)
Callers == {"g1", "g2"}
Urls == {"/basic.pipeline.tar.gz"}
NoHolder == "none"

\* const purgeDuration, in ticks of the clock.
PurgeDuration == 1

\* What the remote server may answer with status 200: a body with the
\* headers ETag and Date, or a body without ETag.
ServerVersions ==
    {[etag |-> "e1", date |-> "d1", body |-> "b1"],
     [etag |-> "e2", date |-> "d2", body |-> "b2"],
     [etag |-> "", date |-> "d3", body |-> "b3"]}

\* The zero cacheValue.
NoCacheValue == [etag |-> "", date |-> "", body |-> "", lastUsed |-> 0]

IdleGet ==
    [pc |-> "idle", url |-> "", cacheData |-> NoCacheValue, ok |-> FALSE, status |-> 0,
     resp |-> NoCacheValue, ret |-> [body |-> "", err |-> FALSE]]

\* A mutex that is granted whoever holds it.
LockAlwaysFree(m) == TRUE

\* sync.Mutex.Lock returns when no goroutine holds the mutex.
LockFree(m) == m.cacheLock = NoHolder

\* A Once that runs its function every time.
NeverDone(m) == FALSE

\* sync.Once.Do, line 114: the function has run.
OnceDone(m) == m.once

\* An age that is never old enough to purge.
NeverExpired(age) == FALSE

\* Line 132: the entry was last used longer ago than the purge duration.
Expired(age) == age > PurgeDuration

\* Lines 56, 90 and 110: cacheLock.Lock() of GetFromCache, on entry for a
\* URL, after a 304 and after the body of a 200 was read.
CacheLock(p) ==
    /\ mem.get[p].pc \in {"idle", "lock2", "lock3"}
    /\ LockFree(mem)
    /\ \E url \in Urls :
          mem' = [mem EXCEPT
                    !.cacheLock = p,
                    !.get[p] = CASE @.pc = "idle" -> [IdleGet EXCEPT !.pc = "read", !.url = url]
                                 [] @.pc = "lock2" -> [@ EXCEPT !.pc = "refresh"]
                                 [] OTHER -> [@ EXCEPT !.pc = "once"]]
    /\ UNCHANGED <<objs, pass>>

\* Lines 57-58: the entry is read and the lock is dropped.
CacheRead(p) ==
    /\ mem.get[p].pc = "read"
    /\ LET url == mem.get[p].url
           ok == url \in DOMAIN mem.httpCache
       IN mem' = [mem EXCEPT
                    !.cacheLock = NoHolder,
                    !.get[p] = [@ EXCEPT !.pc = "request", !.ok = ok,
                                         !.cacheData = IF ok THEN mem.httpCache[url]
                                                       ELSE NoCacheValue]]
    /\ UNCHANGED <<objs, pass>>

\* Lines 59-104: the request is sent, with If-None-Match when an entry was
\* read.  The server answers 304 to a request that carries the etag of
\* the version it has, 200 with a version, or another status, or the
\* request fails.  After a 304 lastUsed of the copy read is set (line 89).
CacheRequest(p) ==
    /\ mem.get[p].pc = "request"
    /\ LET g == mem.get[p]
       IN \/ \E status \in {0, 500} :
                mem' = [mem EXCEPT !.get[p] = [IdleGet EXCEPT !.url = g.url, !.status = status,
                                                              !.ret = [body |-> "", err |-> TRUE]]]
          \/ /\ g.ok
             /\ \E v \in ServerVersions : v.etag = g.cacheData.etag
             /\ mem' = [mem EXCEPT !.get[p] = [g EXCEPT !.pc = "lock2", !.status = 304,
                                                        !.cacheData.lastUsed = mem.now]]
          \/ \E v \in ServerVersions :
                mem' = [mem EXCEPT !.get[p] = [g EXCEPT !.pc = "lock3", !.status = 200,
                                                        !.resp = [etag |-> v.etag, date |-> v.date,
                                                                  body |-> v.body, lastUsed |-> 0]]]
    /\ UNCHANGED <<objs, pass>>

\* Lines 91-94: the copy read is put back with its new lastUsed and its
\* body is returned.
CacheRefresh(p) ==
    /\ mem.get[p].pc = "refresh"
    /\ LET g == mem.get[p]
       IN mem' = [mem EXCEPT
                    !.httpCache = (g.url :> g.cacheData) @@ @,
                    !.stored = @ \cup {[url |-> g.url, body |-> g.cacheData.body]},
                    !.cacheLock = NoHolder,
                    !.get[p] = [IdleGet EXCEPT
                                  !.url = g.url, !.status = g.status,
                                  !.ret = [body |-> g.cacheData.body, err |-> FALSE]]]
    /\ UNCHANGED <<objs, pass>>

\* Lines 112-116: for a response with ETag and Date, startPurgeTicker runs
\* ScheduleWork unless it has done so.
CacheOnce(p) ==
    /\ mem.get[p].pc = "once"
    /\ LET g == mem.get[p]
       IN IF g.resp.etag # "" /\ g.resp.date # "" /\ ~OnceDone(mem)
          THEN mem' = [mem EXCEPT !.once = TRUE, !.scheduled = @ + 1, !.get[p].pc = "store"]
          ELSE mem' = [mem EXCEPT !.get[p].pc = "store"]
    /\ UNCHANGED <<objs, pass>>

\* Lines 111-124: the response is stored, or the entry of the URL is
\* deleted when the response has no ETag or Date; the body is returned and
\* the deferred Unlock runs.
CacheStore(p) ==
    /\ mem.get[p].pc = "store"
    /\ LET g == mem.get[p]
           done == [IdleGet EXCEPT !.url = g.url, !.status = g.status,
                                   !.ret = [body |-> g.resp.body, err |-> FALSE]]
       IN IF g.resp.etag # "" /\ g.resp.date # ""
          THEN mem' = [mem EXCEPT
                         !.httpCache = (g.url :> [g.resp EXCEPT !.lastUsed = mem.now]) @@ @,
                         !.stored = @ \cup {[url |-> g.url, body |-> g.resp.body]},
                         !.cacheLock = NoHolder,
                         !.get[p] = done]
          ELSE mem' = [mem EXCEPT
                         !.httpCache = [u \in DOMAIN @ \ {g.url} |-> @[u]],
                         !.cacheLock = NoHolder,
                         !.get[p] = done]
    /\ UNCHANGED <<objs, pass>>

\* timer.go:44-52 and httpcache.go:129: the ticker that ScheduleWork has
\* started fires and purgeCache takes the lock.
PurgeLock ==
    /\ mem.scheduled > 0
    /\ mem.purge.pc = "idle"
    /\ LockFree(mem)
    /\ mem' = [mem EXCEPT !.cacheLock = "purge",
                          !.purge = [@ EXCEPT !.pc = "scan", !.todo = DOMAIN mem.httpCache]]
    /\ UNCHANGED <<objs, pass>>

\* Lines 130-136: the range over the map, which deletes the entries that
\* have expired; at its end the deferred Unlock runs.
PurgeScan ==
    /\ mem.purge.pc = "scan"
    /\ IF mem.purge.todo = {}
       THEN mem' = [mem EXCEPT !.cacheLock = NoHolder, !.purge.pc = "idle"]
       ELSE \E key \in mem.purge.todo :
               LET present == key \in DOMAIN mem.httpCache
                   lastUsed == IF present THEN mem.httpCache[key].lastUsed ELSE 0
                   deleted == Expired(mem.now - lastUsed)
               IN mem' = [mem EXCEPT
                            !.httpCache = IF deleted THEN [u \in DOMAIN @ \ {key} |-> @[u]] ELSE @,
                            !.purge = [@ EXCEPT !.todo = @ \ {key},
                                                !.last = [url |-> key, lastUsed |-> lastUsed,
                                                          at |-> mem.now, deleted |-> deleted]]]
    /\ UNCHANGED <<objs, pass>>

\* The clock advances.
Tick ==
    /\ mem.now < MaxTime
    /\ mem' = [mem EXCEPT !.now = @ + 1]
    /\ UNCHANGED <<objs, pass>>

InitCache ==
    /\ objs = <<>>
    /\ pass = [s \in Stacks |-> IdlePass]
    /\ mem = [httpCache |-> <<>>, cacheLock |-> NoHolder, once |-> FALSE, scheduled |-> 0,
              now |-> 0, get |-> [p \in Callers |-> IdleGet],
              purge |-> [pc |-> "idle", todo |-> {},
                         last |-> [url |-> "", lastUsed |-> 0, at |-> 0, deleted |-> FALSE]],
              stored |-> {}]

\* Two goroutines call GetFromCache any number of times for one URL, while
\* the ticker goroutine runs purgeCache and the clock advances up to
\* MaxTime.
NextCache ==
    \/ \E p \in Callers :
          \/ CacheLock(p)
          \/ CacheRead(p)
          \/ CacheRequest(p)
          \/ CacheRefresh(p)
          \/ CacheOnce(p)
          \/ CacheStore(p)
    \/ PurgeLock
    \/ PurgeScan
    \/ Tick

SpecCache == InitCache /\ [][NextCache]_vars

\* The positions of GetFromCache at which the map is read, written or
\* deleted from (lines 57, 91, 117, 121) or the Once is run (line 114).
MapAccess == {"read", "refresh", "once", "store"}

\* C34: in GetFromCache and purgeCache the goroutine that reads, writes or
\* deletes from httpCache holds cacheLock, a goroutine whose HTTP request
\* is in flight, or that waits for the lock, does not hold it, and whoever
\* holds the lock can take its next step, so that the lock is released:
\* no two goroutines are at the map together and none waits for ever.
C34_LockGuardsEveryMapAccess ==
    /\ \A p \in Callers :
          /\ mem.get[p].pc \in MapAccess => mem.cacheLock = p
          /\ mem.get[p].pc \notin MapAccess => mem.cacheLock # p
          /\ mem.cacheLock = p =>
                ENABLED (CacheRead(p) \/ CacheRefresh(p) \/ CacheOnce(p) \/ CacheStore(p))
    /\ mem.purge.pc = "scan" <=> mem.cacheLock = "purge"
    /\ mem.cacheLock = "purge" => ENABLED PurgeScan
    /\ mem.cacheLock = NoHolder =>
          \A p \in Callers : mem.get[p].pc \in {"idle", "lock2", "lock3"} => ENABLED CacheLock(p)

\* One goroutine stores a response under the lock while the request of the
\* other is in flight and the purge ticker has been started.
C34_Witness ==
    /\ mem.get["g1"].pc = "request"
    /\ mem.get["g2"].pc = "store"
    /\ mem.cacheLock = "g2"
    /\ mem.scheduled > 0

RefreshReturned(p) ==
    LET g == mem.get[p]
    IN (g.pc = "refresh" /\ mem'.get[p].pc = "idle") =>
          /\ g.status = 304 /\ g.ok
          /\ mem'.get[p].ret = [body |-> g.cacheData.body, err |-> FALSE]
          /\ [url |-> g.url, body |-> g.cacheData.body] \in mem.stored
          /\ g.url \in DOMAIN mem'.httpCache
          /\ mem'.httpCache[g.url].body = g.cacheData.body
          /\ mem'.httpCache[g.url].lastUsed = g.cacheData.lastUsed
          /\ g.cacheData.lastUsed <= mem.now

\* The step of purgeCache at one key of the map: the entry is gone after
\* it exactly when it was last used longer ago than the purge duration.
PurgedIfExpired ==
    \A key \in Urls :
       (mem.purge.pc = "scan" /\ key \in mem.purge.todo /\ key \notin mem'.purge.todo
          /\ key \in DOMAIN mem.httpCache) =>
          /\ key \notin DOMAIN mem'.httpCache <=> mem.now - mem.httpCache[key].lastUsed > PurgeDuration
          /\ key \in DOMAIN mem'.httpCache => mem'.httpCache[key] = mem.httpCache[key]

GfOutcomes == [ok : BOOLEAN, err : BOOLEAN]
Neither == [ok |-> FALSE, err |-> FALSE]

\* A loop test that lets one more iteration through.
ExhaustedLate(m) == ~(m.i <= m.attempts)

\* Line 17: the loop test i < attempts fails.
Exhausted(m) == ~(m.i < m.attempts)

\* Lines 17-25: the loop test holds and gf is invoked; its error is
\* returned, or nil when it reports ok.
RetryCall ==
    /\ mem.pc = "loop"
    /\ ~Exhausted(mem)
    /\ \E r \in GfOutcomes :
          mem' = [mem EXCEPT
                    !.outcomes = Append(@, r),
                    !.pc = IF r.err \/ r.ok THEN "done" ELSE "sleep",
                    !.ret = IF r.err THEN "err" ELSE IF r.ok THEN "nil" ELSE @]
    /\ UNCHANGED <<objs, pass>>

\* Lines 27 and 17: time.Sleep(waitTime) and i++.
RetrySleep ==
    /\ mem.pc = "sleep"
    /\ mem' = [mem EXCEPT !.slept = @ + mem.waitTime, !.i = @ + 1, !.pc = "loop"]
    /\ UNCHANGED <<objs, pass>>

\* Lines 17 and 30: the loop test fails and the failure error is returned.
RetryFail ==
    /\ mem.pc = "loop"
    /\ Exhausted(mem)
    /\ mem' = [mem EXCEPT !.pc = "done", !.ret = "failed"]
    /\ UNCHANGED <<objs, pass>>

InitRetry ==
    /\ objs = <<>>
    /\ pass = [s \in Stacks |-> IdlePass]
    /\ \E attempts \in -1 .. MaxAttempts, waitTime \in 0 .. MaxWait :
          mem = [attempts |-> attempts, waitTime |-> waitTime, i |-> 0, pc |-> "loop",
                 outcomes |-> <<>>, slept |-> 0, ret |-> "none"]

NextRetry ==
    \/ RetryCall
    \/ RetrySleep
    \/ RetryFail

\* The goroutine that called Retry keeps running, and gf and time.Sleep
\* return.
SpecRetry == InitRetry /\ [][NextRetry]_vars /\ WF_vars(NextRetry)

\* What Retry has done so far: gf was invoked at most attempts times, no
\* invocation but the last reported ok or an error, and after the return
\* the value returned is that of the last invocation, or the failure
\* error after attempts invocations that reported neither.
RetryAsSpecified ==
    LET n == Len(mem.outcomes)
        cap == IF mem.attempts > 0 THEN mem.attempts ELSE 0
    IN /\ n <= cap
       /\ \A k \in 1 .. n - 1 : mem.outcomes[k] = Neither
       /\ mem.pc # "done" => (mem.ret = "none" /\ \A k \in 1 .. n : mem.outcomes[k] = Neither)
       /\ mem.pc = "done" =>
             \/ mem.ret = "nil" /\ n >= 1 /\ mem.outcomes[n] = [ok |-> TRUE, err |-> FALSE]
             \/ mem.ret = "err" /\ n >= 1 /\ mem.outcomes[n].err
             \/ mem.ret = "failed" /\ n = cap /\ \A k \in 1 .. n : mem.outcomes[k] = Neither

\* C37: Retry returns, having invoked gf at most attempts times: nil at
\* the first invocation that reports ok, the error of gf at the first
\* invocation that returns one, with no invocation after it, and the
\* failure error after exactly attempts invocations that report
\* neither, which are none when attempts <= 0.
C37_RetryTerminatesWithinAttempts == []RetryAsSpecified /\ <>(mem.pc = "done")

\* Retry has returned the failure error after MaxAttempts invocations and
\* as many sleeps.
C37_Witness ==
    /\ mem.pc = "done"
    /\ mem.ret = "failed"
    /\ mem.attempts = MaxAttempts
    /\ Len(mem.outcomes) = MaxAttempts
    /\ mem.slept = MaxAttempts * mem.waitTime
    /\ mem.waitTime > 0

(***************************************************************************)
(* The validating webhook of Kabanero instances, validatingwebhook.go.     *)
(* In SpecWebhook mem has the fields                                       *)
(*   kabaneros   the names of the Kabanero instances of the namespace      *)
(*   req         per request in flight at the API server: its position     *)
(*               ("idle", "handle" while the webhook is called, "decided"  *)
(*               once it has answered), the operation, the name of the     *)
(*               instance, whether the rest of its spec is valid, the      *)
(*               items the webhook listed and its answer                   *)
(***************************************************************************)
Requests == {"r1", "r2"}
KabaneroNames == {"kabanero", "kabanero2"}
IdleRequest ==
    [pc |-> "idle", op |-> "", name |-> "", specOk |-> FALSE, items |-> <<>>,
     listErr |-> FALSE, allowed |-> FALSE]

\* The orders in which a List can return the instances named in S.
ListOrders(S) ==
    {q \in [1 .. Cardinality(S) -> S] : \A i, j \in DOMAIN q : q[i] = q[j] => i = j}

\* isKabaneroInstanceAllowed, lines 105-115: the loop leaves at the first
\* item, by break when it has the name of the request and by return false
\* when it has not.
isKabaneroInstanceAllowed(name, items) ==
    IF Len(items) = 0 THEN TRUE ELSE name = items[1]

\* The API server receives a create, or an update of an instance that
\* exists, and calls the webhook.
Admit(r) ==
    /\ mem.req[r].pc = "idle"
    /\ \E op \in {"create", "update"}, name \in KabaneroNames, specOk \in BOOLEAN :
          /\ op = "update" => name \in mem.kabaneros
          /\ mem' = [mem EXCEPT !.req[r] = [IdleRequest EXCEPT !.pc = "handle", !.op = op,
                                                               !.name = name, !.specOk = specOk]]
    /\ UNCHANGED <<objs, pass>>

\* Handle, lines 38-80: the instances of the namespace are listed; the
\* request is allowed when the List succeeds, isKabaneroInstanceAllowed
\* holds and the governance policy and the pipelines of the spec are
\* valid.
Handle(r) ==
    /\ mem.req[r].pc = "handle"
    /\ \/ mem' = [mem EXCEPT !.req[r] = [@ EXCEPT !.pc = "decided", !.listErr = TRUE,
                                                  !.allowed = FALSE]]
       \/ \E items \in ListOrders(mem.kabaneros) :
             mem' = [mem EXCEPT
                       !.req[r] = [@ EXCEPT
                                     !.pc = "decided", !.items = items,
                                     !.allowed = /\ isKabaneroInstanceAllowed(mem.req[r].name, items)
                                                 /\ mem.req[r].specOk]]
    /\ UNCHANGED <<objs, pass>>

\* The API server persists the request the webhook allowed: a create adds
\* the instance unless one of its name exists, an update leaves the set of
\* instances as it is.
Persist(r) ==
    /\ mem.req[r].pc = "decided"
    /\ mem' = [mem EXCEPT
                 !.kabaneros = IF mem.req[r].allowed /\ mem.req[r].op = "create"
                               THEN @ \cup {mem.req[r].name} ELSE @,
                 !.req[r] = [@ EXCEPT !.pc = "idle"]]
    /\ UNCHANGED <<objs, pass>>

InitWebhook ==
    /\ objs = <<>>
    /\ pass = [s \in Stacks |-> IdlePass]
    /\ mem = [kabaneros |-> {}, req |-> [r \in Requests |-> IdleRequest]]

\* Two requests at a time go through admission, in any interleaving.
NextWebhook ==
    \E r \in Requests :
       \/ Admit(r)
       \/ Handle(r)
       \/ Persist(r)

SpecWebhook == InitWebhook /\ [][NextWebhook]_vars

\* C38: with creates applied only when the webhook allowed them, the
\* namespace never holds more than one Kabanero instance, whatever the
\* sequence and interleaving of the requests, and an update of the single
\* instance with a valid spec is allowed.
C38_AtMostOneInstance ==
    /\ Cardinality(mem.kabaneros) <= 1
    /\ \A r \in Requests :
          (mem.req[r].pc = "decided" /\ mem.req[r].op = "update" /\ mem.req[r].specOk
             /\ mem.req[r].items = <<mem.req[r].name>>) => mem.req[r].allowed

(***************************************************************************)
(* createEncryptionKeySecret, timer.go:308-357, called by each reconcile   *)
(* of the Kabanero instance (line 86).  In SpecSecret mem has the fields   *)
(*   secret      the AES key held by the secret of the namespace, or       *)
(*               NoSecret when there is none                               *)
(*   pc          "idle" between reconciles, "build" after a lookup that    *)
(*               found no secret, "create" before c.Create                 *)
(*   lookup      what c.Get of the current or last reconcile reported      *)
(*   key         the key generated last                                    *)
(*   ret         what the last call returned                               *)
(*   reconciles  the number of calls so far                                *)
(*   creates     the number of c.Create issued so far                      *)
(***************************************************************************)
NoSecret == "none"
Keys == {"key1", "key2"}

\* A test that takes every failed lookup for not-found.
AnyLookupError(lookup) == lookup # "found"

\* Lines 317-320: errors.IsNotFound(err).
IsNotFound(lookup) == lookup = "notfound"

\* Lines 313-320 and 356: c.Get finds the secret and nil is returned, or
\* fails; an error other than not-found is returned.
SecretLookup ==
    /\ mem.pc = "idle"
    /\ mem.reconciles < MaxReconciles
    /\ \E lookup \in (IF mem.secret = NoSecret THEN {"notfound"} ELSE {"found"}) \cup {"error"} :
          mem' = [mem EXCEPT
                    !.reconciles = @ + 1,
                    !.lookup = lookup,
                    !.pc = IF lookup # "found" /\ IsNotFound(lookup) THEN "build" ELSE "idle",
                    !.ret = IF lookup = "found" THEN "nil"
                            ELSE IF IsNotFound(lookup) THEN "running" ELSE "lookup error"]
    /\ UNCHANGED <<objs, pass>>

\* Lines 323-350: the owner reference is fetched and the 64 characters of
\* the key are drawn; either can fail, and its error is returned.
SecretBuild ==
    /\ mem.pc = "build"
    /\ \/ \E e \in {"owner error", "rand error"} :
             mem' = [mem EXCEPT !.pc = "idle", !.ret = e]
       \/ \E key \in Keys :
             mem' = [mem EXCEPT !.pc = "create", !.key = key]
    /\ UNCHANGED <<objs, pass>>

\* Lines 353-356: c.Create stores the secret, or fails, as it does when a
\* secret of the name exists; its error is returned.
SecretCreate ==
    /\ mem.pc = "create"
    /\ \/ /\ mem.secret = NoSecret
          /\ mem' = [mem EXCEPT !.secret = mem.key, !.creates = @ + 1, !.pc = "idle",
                                !.ret = "nil"]
       \/ mem' = [mem EXCEPT !.creates = @ + 1, !.pc = "idle", !.ret = "create error"]
    /\ UNCHANGED <<objs, pass>>

InitSecret ==
    /\ objs = <<>>
    /\ pass = [s \in Stacks |-> IdlePass]
    /\ \E secret \in {NoSecret} \cup Keys :
          mem = [secret |-> secret, pc |-> "idle", lookup |-> "", key |-> "", ret |-> "",
                 reconciles |-> 0, creates |-> 0]

\* Up to MaxReconciles reconciles, one after the other.
NextSecret ==
    \/ SecretLookup
    \/ SecretBuild
    \/ SecretCreate

SpecSecret == InitSecret /\ [][NextSecret]_vars

\* C39: a Create is issued only after a lookup that reported not-found;
\* while the secret exists no step issues a Create or changes or removes
\* the secret, so its key stays; and a lookup that fails otherwise ends
\* the call with that error and without a Create.
C39_CreateOnlyWhenNotFound ==
    [][/\ mem'.creates # mem.creates => (mem.lookup = "notfound" /\ mem.secret = NoSecret)
       /\ mem.secret # NoSecret => (mem'.secret = mem.secret /\ mem'.creates = mem.creates)
       /\ mem'.secret # mem.secret => (mem'.secret = mem.key /\ mem'.creates = mem.creates + 1)
       /\ (mem.pc = "idle" /\ mem'.lookup = "error") =>
             (mem'.pc = "idle" /\ mem'.ret = "lookup error" /\ mem'.creates = mem.creates
                /\ mem'.secret = mem.secret)]_vars

\* A reconcile has created the secret and those after it have looked it
\* up, the last with an error, and the key is the one created.
C39_Witness ==
    /\ mem.creates = 1
    /\ mem.reconciles = MaxReconciles
    /\ mem.secret = mem.key /\ mem.secret \in Keys
    /\ mem.pc = "idle"
    /\ mem.lookup = "error"
    /\ mem.ret = "lookup error"

(***************************************************************************)
(* cleanupCollectionController, timer.go:465-503, the finalizer step of a  *)
(* Kabanero instance.  In SpecCleanup mem has the fields                   *)
(*   collections  the Collections of the namespace: name to whether an     *)
(*                owner reference has the UID of the instance and whether  *)
(*                the deletion timestamp is set                            *)
(*   pc           "idle" between invocations, "loop" in the range over     *)
(*                the list                                                 *)
(*   list         the items c.List returned to the current or last         *)
(*                invocation, todo the names not yet visited               *)
(*   collectionCount  the local of that name                               *)
(*   deletes, failed  the names c.Delete was issued for, and failed for    *)
(*   ret          what the last invocation returned                        *)
(*   invocations  the number of invocations so far                         *)
(***************************************************************************)
CollectionNames == {"java-microprofile", "nodejs"}
CollectionStates == [owned : BOOLEAN, deleting : BOOLEAN]

\* The function f without the key k.
Without(f, k) == [x \in DOMAIN f \ {k} |-> f[x]]

\* A test that lets one owned collection through.
BlockedByMany(collectionCount) == collectionCount > 1

\* Line 496: collections are left.
Blocked(collectionCount) == collectionCount > 0

\* Lines 473-479: c.List fails and its error is returned, or returns the
\* collections of the namespace.
CleanupList ==
    /\ mem.pc = "idle"
    /\ mem.invocations < MaxReconciles
    /\ \/ mem' = [mem EXCEPT !.invocations = @ + 1, !.list = <<>>, !.todo = {},
                             !.collectionCount = 0, !.deletes = {}, !.failed = {},
                             !.ret = "list error"]
       \/ mem' = [mem EXCEPT !.invocations = @ + 1, !.list = mem.collections,
                             !.todo = DOMAIN mem.collections,
                             !.collectionCount = 0, !.deletes = {}, !.failed = {},
                             !.ret = "running", !.pc = "loop"]
    /\ UNCHANGED <<objs, pass>>

\* Lines 480-492: one item of the list.  An owned collection is counted
\* and, when its deletion timestamp is zero, deleted; a Delete that
\* succeeds sets the deletion timestamp of the collection, which stays
\* until its finalizer has run, and one that fails is logged.
CleanupItem ==
    /\ mem.pc = "loop"
    /\ \E name \in mem.todo :
          LET collection == mem.list[name]
          IN IF ~collection.owned
             THEN mem' = [mem EXCEPT !.todo = @ \ {name}]
             ELSE IF collection.deleting
             THEN mem' = [mem EXCEPT !.todo = @ \ {name}, !.collectionCount = @ + 1]
             ELSE \/ mem' = [mem EXCEPT
                               !.todo = @ \ {name}, !.collectionCount = @ + 1,
                               !.deletes = @ \cup {name},
                               !.collections = IF name \in DOMAIN @
                                               THEN [@ EXCEPT ![name].deleting = TRUE]
                                               ELSE @]
                  \/ mem' = [mem EXCEPT
                               !.todo = @ \ {name}, !.collectionCount = @ + 1,
                               !.deletes = @ \cup {name}, !.failed = @ \cup {name}]
    /\ UNCHANGED <<objs, pass>>

\* Lines 495-502: after the range, the error that blocks the deletion is
\* returned when collections were counted, and nil when none was.
CleanupReturn ==
    /\ mem.pc = "loop"
    /\ mem.todo = {}
    /\ mem' = [mem EXCEPT !.pc = "idle",
                          !.ret = IF Blocked(mem.collectionCount) THEN "blocked" ELSE "nil"]
    /\ UNCHANGED <<objs, pass>>

\* The collection controller runs the finalizer of a collection that is
\* being deleted, and the collection is gone.
CollectionFinalized ==
    /\ \E name \in DOMAIN mem.collections :
          /\ mem.collections[name].deleting
          /\ mem' = [mem EXCEPT !.collections = Without(@, name)]
    /\ UNCHANGED <<objs, pass>>

InitCleanup ==
    /\ objs = <<>>
    /\ pass = [s \in Stacks |-> IdlePass]
    /\ \E names \in SUBSET CollectionNames :
          \E collections \in [names -> CollectionStates] :
             mem = [collections |-> collections, pc |-> "idle", list |-> <<>>, todo |-> {},
                    collectionCount |-> 0, deletes |-> {}, failed |-> {}, ret |-> "",
                    invocations |-> 0]

\* Up to MaxReconciles invocations, one after the other, while the
\* collection controller finalizes collections.
NextCleanup ==
    \/ CleanupList
    \/ CleanupItem
    \/ CleanupReturn
    \/ CollectionFinalized

SpecCleanup == InitCleanup /\ [][NextCleanup]_vars

\* The collections of the list that the instance owns, and those of them
\* without deletion timestamp.
OwnedListed == {n \in DOMAIN mem.list : mem.list[n].owned}
OwnedListedLive == {n \in OwnedListed : ~mem.list[n].deleting}

\* C40: cleanupCollectionController returns nil only when its list holds
\* no collection owned by the instance; when the list holds owned
\* collections it issues Delete for those without deletion timestamp and
\* no other, for all of them whether or not a Delete failed, and returns
\* the error, so that the finalizer completes only in a later invocation
\* that lists no owned collection.
C40_SuccessOnlyWithoutOwnedCollections ==
    /\ mem.deletes \subseteq OwnedListedLive
    /\ mem.failed \subseteq mem.deletes
    /\ (mem.pc = "idle" /\ mem.ret = "nil") => OwnedListed = {}
    /\ (mem.pc = "idle" /\ mem.ret \in {"nil", "blocked"}) =>
          /\ mem.deletes = OwnedListedLive
          /\ mem.ret = "blocked" <=> OwnedListed # {}
    /\ (mem.pc = "idle" /\ mem.ret = "list error") => mem.deletes = {}

\* An invocation has found two owned collections, one of them being
\* deleted already, has issued the one Delete, which failed, and has
\* returned the error.
C40_Witness ==
    /\ mem.pc = "idle"
    /\ mem.ret = "blocked"
    /\ mem.collectionCount = 2
    /\ mem.list["nodejs"] = [owned |-> TRUE, deleting |-> TRUE]
    /\ mem.deletes = {"java-microprofile"}
    /\ mem.failed = {"java-microprofile"}

\* What is kept of a call once its pass is over.
Outcome(c) == [op |-> c.op, ref |-> c.ref, key |-> c.key, result |-> c.result]

\* The controller calls ActivatePipelines a second time for a stack whose
\* first pass has returned a use map.
ActivateAgain(s) ==
    /\ pass[s].pc = "done"
    /\ ~pass[s].err
    /\ pass[s].passes = 1
    /\ SetPass(s, [IdlePass EXCEPT
                     !.passes = pass[s].passes,
                     !.prev = [ran |-> TRUE,
                               assetUseMap |-> pass[s].assetUseMap,
                               outcomes |-> {Outcome(pass[s].calls[i]) : i \in DOMAIN pass[s].calls},
                               specPairs |-> pass[s].specPairs]])
    /\ UNCHANGED objs

\* The stack has run a pass before.
Again(s) == pass[s].prev.ran

\* The status the controller writes after a pass: the versions and
\* pipelines of the spec the pass was given ...
StatusAfter(prev, choices) == {status \in choices : PairsOf(status) = prev.specPairs}

\* ... each pipeline with the assets the use map has for it.
RecordedAfter(prev) ==
    [k \in {KeyOf(r) : r \in PipelineRefs} |->
        IF k \in DOMAIN prev.assetUseMap /\ prev.assetUseMap[k].useCount > 0
        THEN prev.assetUseMap[k].ActiveAssets
        ELSE <<>>]

\* The clusters the two passes start on: none of the objects of the
\* archives, the build pipeline alone, or all of them, owned by the one or
\* by the other stack.
TwiceClusters ==
    {[k \in present |-> <<owner>>] :
        present \in {{}, {ObjectKey(targetNamespace, buildPipeline.Name)},
                     {ObjectKey(targetNamespace, d.Name) :
                         d \in {buildTask, buildPipeline, deployment}}},
        owner \in Stacks}

\* The status the first pass is given records every asset as active, or
\* no asset.
AllOrNone == {AllActive, [k \in DOMAIN AllActive |-> <<>>]}

InitTwice ==
    /\ objs \in TwiceClusters
    /\ pass = [s \in Stacks |-> IdlePass]
    /\ mem = NoMem

\* Two passes of the stack myuid in a row: the second one is given the
\* spec of the first and the status the first has produced.
NextTwice ==
    \/ SeedUseMap(myuid,
                  IF Again(myuid) THEN StatusAfter(pass[myuid].prev, OneVersion) ELSE OneVersion,
                  IF Again(myuid) THEN {RecordedAfter(pass[myuid].prev)} ELSE AllOrNone)
    \/ UpdateUseMap(myuid,
                    IF Again(myuid) THEN StatusAfter(pass[myuid].prev, OneVersion) ELSE OneVersion)
    \/ DeleteLoop(myuid)
    \/ DeleteAssetGet(myuid)
    \/ DeleteAssetWrite(myuid)
    \/ EnsureLoop(myuid)
    \/ FetchManifests(myuid)
    \/ EnsureGet(myuid)
    \/ FetchManifestsAgain(myuid)
    \/ ApplyManifest(myuid)
    \/ AddOwnerReference(myuid)
    \/ ActivateAgain(myuid)

SpecTwice == InitTwice /\ [][NextTwice]_vars

(***************************************************************************)
(* Properties.                                                             *)
(***************************************************************************)
\* The use counts of the pass of s are final.
Counted(s) == pass[s].pc \notin {"idle", "seeded"} /\ ~pass[s].err

\* The versions that a set of (key, version) pairs lists for a key.
VersionsOf(pairs, key) == {pr.version : pr \in {q \in pairs : q.key = key}}

\* The calls the pass of s has made.
CallsOf(s) == {pass[s].calls[i] : i \in DOMAIN pass[s].calls}

\* The elements of a sequence.
Range(seq) == {seq[i] : i \in DOMAIN seq}

\* DeleteAsset is running for an asset of key.
InDeleteAsset(s, key) == pass[s].pc \in {"DeleteAsset", "DeleteAssetWrite"} /\ pass[s].cur = key

\* C1: a pipeline reference that the status records for several stack
\* versions and that a version of the desired spec still references keeps a
\* use count of at least 1, and DeleteAsset is not called for its assets,
\* whichever other versions were removed or deactivated.
C1_SharedPipelineKept ==
    \A s \in Stacks :
        Counted(s) =>
            \A key \in {pr.key : pr \in pass[s].statusPairs} :
                (/\ Cardinality(VersionsOf(pass[s].statusPairs, key)) >= 2
                 /\ VersionsOf(pass[s].specPairs, key) # {})
                => /\ key \in DOMAIN pass[s].assetUseMap
                   /\ pass[s].assetUseMap[key].useCount >= 1
                   /\ ~InDeleteAsset(s, key)
                   /\ \A c \in CallsOf(s) : c.by = "DeleteAsset" => c.ref # key

\* A pass is over in which one of the two versions that recorded a pipeline
\* was removed, and the assets of the pipeline were looked up, not deleted.
C1_Witness ==
    \E s \in Stacks : \E key \in DOMAIN pass[s].assetUseMap :
        /\ pass[s].pc = "done"
        /\ Cardinality(VersionsOf(pass[s].statusPairs, key)) = 2
        /\ Cardinality(VersionsOf(pass[s].specPairs, key)) = 1
        /\ pass[s].assetUseMap[key].useCount = 1
        /\ Len(pass[s].assetUseMap[key].ActiveAssets) > 0
        /\ \E c \in CallsOf(s) : c.ref = key /\ c.op = "Get" /\ c.by = "ActivatePipelines"

\* C2: after the decrement and increment sets were applied, the use count
\* of every pipeline reference is the number of desired-spec versions that
\* reference it.
C2_UseCountIsSpecVersions ==
    \A s \in Stacks :
        Counted(s) =>
            \A key \in DOMAIN pass[s].assetUseMap :
                pass[s].assetUseMap[key].useCount
                    = Cardinality(VersionsOf(pass[s].specPairs, key))

\* C3: DeleteAsset is invoked only for recorded assets of references whose
\* use count is 0 or less, the ensure-present work (manifest retrieval, Get,
\* create, owner Update) is done only for references whose use count is
\* positive.
C3_DeleteOrEnsure ==
    \A s \in Stacks :
        LET useMap == pass[s].assetUseMap
        IN /\ pass[s].pc \in {"DeleteAsset", "DeleteAssetWrite"}
                => useMap[pass[s].cur].useCount <= 0
           /\ pass[s].pc \in {"GetManifests", "Get", "GetManifestsAgain", "Apply", "Update"}
                => useMap[pass[s].cur].useCount > 0
           /\ \A c \in CallsOf(s) :
                 /\ c.by = "DeleteAsset"
                      => /\ useMap[c.ref].useCount <= 0
                         /\ \E i \in DOMAIN useMap[c.ref].ActiveAssets :
                               useMap[c.ref].ActiveAssets[i].Name = c.key.Name
                 /\ c.by \in {"ActivatePipelines", "Apply"} => useMap[c.ref].useCount > 0

\* A pass is over that deleted for one reference and ensured for another.
C3_Witness ==
    \E s \in Stacks :
        /\ pass[s].pc = "done"
        /\ \E c \in CallsOf(s) : c.by = "DeleteAsset" /\ c.op = "Delete" /\ c.result = "ok"
        /\ \E c \in CallsOf(s) : c.by = "Apply" /\ c.op = "Create" /\ c.result = "ok"
        /\ \E c \in CallsOf(s) : c.by = "ActivatePipelines" /\ c.op = "GetManifests"

\* C4: DeleteAsset issues a Delete only when the owner references of the
\* object found, without those of the stack, are empty; otherwise it issues
\* an Update with exactly the references of the other owners.
C4_DeleteOnlyWithoutOtherOwners ==
    \A s \in Stacks : \A c \in CallsOf(s) :
        (c.by = "DeleteAsset" /\ c.op \in {"Delete", "Update"})
        => LET others == SelectSeq(c.before, LAMBDA o : o # s)
           IN /\ c.op = "Delete" <=> others = <<>>
              /\ c.op = "Update" => c.owners = others

\* DeleteAsset has deleted an object the stack alone owned and has updated
\* one that another stack owns too.
C4_Witness ==
    \E s \in Stacks :
        /\ \E c \in CallsOf(s) :
              /\ c.by = "DeleteAsset" /\ c.op = "Delete" /\ c.result = "ok" /\ c.before = <<s>>
              /\ c.key \notin DOMAIN objs
        /\ \E c \in CallsOf(s) :
              /\ c.by = "DeleteAsset" /\ c.op = "Update" /\ c.result = "ok"
              /\ c.before = <<otheruid, s>> /\ c.owners = <<otheruid>>
              /\ c.key \in DOMAIN objs /\ objs[c.key] = <<otheruid>>

\* C5: when ensure-present finds the object and no owner reference has the
\* stack's UID, it appends the stack's reference to the list found and
\* issues one Update; when the UID is present it issues no Update.
C5_OwnerAppendedWhenMissing ==
    \A s \in Stacks :
        LET calls == pass[s].calls
        IN \A i \in DOMAIN calls :
              /\ (calls[i].op = "Get" /\ calls[i].by = "ActivatePipelines" /\ calls[i].result = "ok")
                 => IF s \in Range(calls[i].owners)
                    THEN /\ i = Len(calls) => pass[s].pc # "Update"
                         /\ i < Len(calls) =>
                               ~(calls[i + 1].op = "Update" /\ calls[i + 1].by = "ActivatePipelines")
                    ELSE /\ i = Len(calls) => pass[s].pc = "Update"
                         /\ i < Len(calls) =>
                               /\ calls[i + 1].op = "Update"
                               /\ calls[i + 1].by = "ActivatePipelines"
                               /\ calls[i + 1].key = calls[i].key
                               /\ calls[i + 1].owners = calls[i].owners \o <<s>>
              /\ (calls[i].op = "Update" /\ calls[i].by = "ActivatePipelines")
                 => /\ i > 1
                    /\ calls[i - 1].op = "Get"
                    /\ calls[i - 1].by = "ActivatePipelines"
                    /\ calls[i - 1].result = "ok"
                    /\ calls[i - 1].key = calls[i].key

\* A pass has found one object owned by another stack only and added the
\* stack to it, and has found one the stack owns and left it alone.
C5_Witness ==
    \E s \in Stacks :
        /\ pass[s].pc = "done"
        /\ \E c \in CallsOf(s) :
              /\ c.by = "ActivatePipelines" /\ c.op = "Update" /\ c.result = "ok"
              /\ c.before = <<otheruid>> /\ c.owners = <<otheruid, s>>
              /\ objs[c.key] = <<otheruid, s>>
        /\ \E i \in DOMAIN pass[s].calls :
              /\ pass[s].calls[i].op = "Get" /\ pass[s].calls[i].by = "ActivatePipelines"
              /\ pass[s].calls[i].result = "ok" /\ s \in Range(pass[s].calls[i].owners)
              /\ i < Len(pass[s].calls)
              /\ pass[s].calls[i + 1].op = "Get"

\* The object an asset status names.
ObjectOf(asset) == ObjectKey(WithNamespace(asset).Namespace, asset.Name)

\* No call of the pass of s has reported an error.
NoCallFailed(s) == \A c \in CallsOf(s) : c.result # "error"

\* The pass of s is over and has activated key: every asset is active.
Activated(s, key) ==
    /\ pass[s].pc = "done"
    /\ NoCallFailed(s)
    /\ key \in DOMAIN pass[s].assetUseMap
    /\ pass[s].assetUseMap[key].useCount > 0
    /\ pass[s].assetUseMap[key].ActiveAssets # <<>>
    /\ \A i \in DOMAIN pass[s].assetUseMap[key].ActiveAssets :
          pass[s].assetUseMap[key].ActiveAssets[i].Status = AssetStatusActive

\* The pass of s is over and has deactivated key, whose assets were recorded.
Deactivated(s, key) ==
    /\ pass[s].pc = "done"
    /\ NoCallFailed(s)
    /\ key \in DOMAIN pass[s].assetUseMap
    /\ pass[s].assetUseMap[key].useCount <= 0
    /\ pass[s].assetUseMap[key].ActiveAssets # <<>>

\* C6: of two stacks that reference the same pipeline, in any order of
\* their passes: when the last pass of both has activated the pipeline,
\* each object carries exactly the two owner UIDs; when the last pass of
\* one has activated and that of the other has deactivated it, each object
\* still exists and carries exactly the UID of the stack that activated.
C6_SharedObjectOwners ==
    \A s \in Stacks : \A t \in Stacks \ {s} :
        LET key == KeyOf(basicPipeline)
        IN Activated(s, key) =>
              \A i \in DOMAIN pass[s].assetUseMap[key].ActiveAssets :
                  LET o == ObjectOf(pass[s].assetUseMap[key].ActiveAssets[i])
                  IN /\ Activated(t, key)
                        => /\ o \in DOMAIN objs
                           /\ Len(objs[o]) = 2
                           /\ Range(objs[o]) = {s, t}
                     /\ Deactivated(t, key)
                        => /\ o \in DOMAIN objs
                           /\ objs[o] = <<s>>

\* Both stacks owned an object; one has deactivated the pipeline since and
\* the object is left with the other stack as its owner.
C6_Witness ==
    \E s \in Stacks : \E t \in Stacks \ {s} :
        /\ Activated(s, KeyOf(basicPipeline))
        /\ Deactivated(t, KeyOf(basicPipeline))
        /\ \E c \in CallsOf(t) :
              /\ c.by = "DeleteAsset" /\ c.op = "Update" /\ c.result = "ok"
              /\ Len(c.before) = 2 /\ Range(c.before) = {s, t}
              /\ c.owners = <<s>>
              /\ c.key \in DOMAIN objs /\ objs[c.key] = <<s>>

\* The objects named by the assets of the entries with a positive use count.
EnsuredObjects(s) ==
    UNION {{ObjectOf(pass[s].assetUseMap[key].ActiveAssets[i]) :
               i \in DOMAIN pass[s].assetUseMap[key].ActiveAssets} :
           key \in {k \in DOMAIN pass[s].assetUseMap : pass[s].assetUseMap[k].useCount > 0}}

\* The objects of the assets recorded as active of the entries with a use
\* count of 0 or less that still have s among their owners.
StillOwned(s) ==
    UNION {{ObjectOf(pass[s].assetUseMap[key].ActiveAssets[i]) :
               i \in {j \in DOMAIN pass[s].assetUseMap[key].ActiveAssets :
                         /\ pass[s].assetUseMap[key].ActiveAssets[j].Status = AssetStatusActive
                         /\ ObjectOf(pass[s].assetUseMap[key].ActiveAssets[j]) \in DOMAIN objs
                         /\ s \in Range(objs[ObjectOf(pass[s].assetUseMap[key].ActiveAssets[j])])}} :
           key \in {k \in DOMAIN pass[s].assetUseMap : pass[s].assetUseMap[k].useCount <= 0}}

\* C7, as stated: after a pass in which every cluster call succeeded, no
\* object named by an asset recorded as active of a reference with a use
\* count of 0 or less has the stack's UID among its owners.
C7_NoOwnedObjectLeft ==
    \A s \in Stacks :
        (pass[s].pc = "done" /\ NoCallFailed(s)) => StillOwned(s) = {}

\* C7: after a pass in which every cluster call succeeded, an object named
\* by an asset recorded as active of a reference with a use count of 0 or
\* less has the stack's UID among its owners only if an asset of a
\* reference with a positive use count names the same object.
C7_NoOwnedObjectLeftUnlessEnsured ==
    \A s \in Stacks :
        (pass[s].pc = "done" /\ NoCallFailed(s)) => StillOwned(s) \subseteq EnsuredObjects(s)

\* A pass without failed call is over that deleted one object of a
\* deactivated reference and took the stack off the owners of another.
C7_Witness ==
    \E s \in Stacks : \E key \in DOMAIN pass[s].assetUseMap :
        /\ pass[s].pc = "done"
        /\ NoCallFailed(s)
        /\ pass[s].assetUseMap[key].useCount <= 0
        /\ \E c \in CallsOf(s) :
              /\ c.by = "DeleteAsset" /\ c.ref = key /\ c.op = "Delete"
              /\ s \in Range(c.before) /\ c.key \notin DOMAIN objs
        /\ \E c \in CallsOf(s) :
              /\ c.by = "DeleteAsset" /\ c.ref = key /\ c.op = "Update"
              /\ s \in Range(c.before) /\ c.key \in DOMAIN objs
              /\ s \notin Range(objs[c.key])

\* C8: every manifest that ensure-present applies has the group tekton.dev
\* or triggers.tekton.dev, whatever the archives and the cluster hold.
C8_OnlyTektonGroupsApplied ==
    \A s \in Stacks : \A c \in CallsOf(s) :
        c.by = "Apply" => c.group \in {"tekton.dev", "triggers.tekton.dev"}

\* A pass has rejected the manifest of the group apps, has created no
\* object for it, and has created an object of the group tekton.dev.
C8_Witness ==
    \E s \in Stacks : \E key \in DOMAIN pass[s].assetUseMap :
        /\ pass[s].pc = "done"
        /\ \E i \in DOMAIN pass[s].assetUseMap[key].ActiveAssets :
              LET asset == pass[s].assetUseMap[key].ActiveAssets[i]
              IN /\ asset.Group = "apps"
                 /\ asset.Status = AssetStatusFailed
                 /\ asset.StatusMessage =
                      "Manifest rejected: contains a Group not equal to tekton.dev or triggers.tekton.dev"
                 /\ ObjectOf(asset) \notin DOMAIN objs
        /\ \E c \in CallsOf(s) :
              c.by = "Apply" /\ c.ref = key /\ c.op = "Create" /\ c.group = "tekton.dev"

\* C9: every asset of a reference with a positive use count whose group is
\* neither tekton.dev nor triggers.tekton.dev ends a pass without failed
\* call with the status failed, whether or not its object exists.
C9_OtherGroupEndsFailed ==
    \A s \in Stacks :
        (pass[s].pc = "done" /\ NoCallFailed(s)) =>
            \A key \in DOMAIN pass[s].assetUseMap :
                pass[s].assetUseMap[key].useCount > 0 =>
                    \A i \in DOMAIN pass[s].assetUseMap[key].ActiveAssets :
                        LET asset == pass[s].assetUseMap[key].ActiveAssets[i]
                        IN asset.Group \notin {"tekton.dev", "triggers.tekton.dev"}
                           => asset.Status = AssetStatusFailed

\* Ensure-present was done for key: its manifests were retrieved, or the
\* object of each of its recorded assets was looked up.
Ensured(s, key) ==
    \/ \E c \in CallsOf(s) : c.op = "GetManifests" /\ c.by = "ActivatePipelines" /\ c.ref = key
    \/ /\ pass[s].assetUseMap[key].ActiveAssets # <<>>
       /\ \A i \in DOMAIN pass[s].assetUseMap[key].ActiveAssets :
             \E c \in CallsOf(s) :
                 /\ c.op = "Get" /\ c.by = "ActivatePipelines" /\ c.ref = key
                 /\ c.key = ObjectOf(pass[s].assetUseMap[key].ActiveAssets[i])

\* C10: a pass in which the manifests of a reference cannot be retrieved
\* still does ensure-present for every other reference with a positive use
\* count, and returns no error.
C10_ManifestErrorSkipsOneReference ==
    \A s \in Stacks :
        pass[s].pc = "done" =>
            \A key \in DOMAIN pass[s].assetUseMap :
                pass[s].assetUseMap[key].ManifestError
                => /\ ~pass[s].err
                   /\ \A other \in DOMAIN pass[s].assetUseMap \ {key} :
                         pass[s].assetUseMap[other].useCount > 0 => Ensured(s, other)

\* A pass is over that failed to retrieve the manifests of one reference
\* and afterwards created an object of another.
C10_Witness ==
    \E s \in Stacks : \E key \in DOMAIN pass[s].assetUseMap :
        /\ pass[s].pc = "done"
        /\ ~pass[s].err
        /\ pass[s].assetUseMap[key].ManifestError
        /\ \E i \in DOMAIN pass[s].calls : \E j \in DOMAIN pass[s].calls :
              /\ i < j
              /\ pass[s].calls[i].op = "GetManifests" /\ pass[s].calls[i].ref = key
              /\ pass[s].calls[i].result = "error"
              /\ pass[s].calls[j].by = "Apply" /\ pass[s].calls[j].op = "Create"
              /\ pass[s].calls[j].ref # key /\ pass[s].calls[j].result = "ok"

\* The assets of the entry of key in the use map of s.
AssetsOf(s, key) == pass[s].assetUseMap[key].ActiveAssets

\* The calls that Apply has made in the pass of s to create the object o
\* for the entry of key, with the given result.
Creates(s, key, o, result) ==
    {c \in CallsOf(s) : /\ c.by = "Apply" /\ c.op = "Create" /\ c.ref = key
                        /\ c.key = o /\ c.result = result}

\* The object of every asset of key was looked up by the ensure loop.
AllLookedUp(s, key) ==
    \A i \in DOMAIN AssetsOf(s, key) :
        \E c \in CallsOf(s) : /\ c.op = "Get" /\ c.by = "ActivatePipelines"
                              /\ c.ref = key /\ c.key = ObjectOf(AssetsOf(s, key)[i])

\* C11: an asset whose object could not be created because of an API error
\* ends the pass failed with the error text as its message; the other
\* assets of the pipeline are still processed, and those created are active
\* with an empty message.
C11_CreateErrorRecordedPerAsset ==
    \A s \in Stacks :
        pass[s].pc = "done" =>
            \A key \in DOMAIN pass[s].assetUseMap :
                \A i \in DOMAIN AssetsOf(s, key) :
                    LET asset == AssetsOf(s, key)[i]
                    IN /\ Creates(s, key, ObjectOf(asset), "error") # {}
                          => /\ asset.Status = AssetStatusFailed
                             /\ asset.StatusMessage = ApplyErrorText
                             /\ AllLookedUp(s, key)
                       /\ Creates(s, key, ObjectOf(asset), "ok") # {}
                          => /\ asset.Status = AssetStatusActive
                             /\ asset.StatusMessage = ""

\* A pass is over in which the creation of one object failed and the
\* creation of the next object of the same pipeline succeeded.
C11_Witness ==
    \E s \in Stacks : \E key \in DOMAIN pass[s].assetUseMap :
        /\ pass[s].pc = "done"
        /\ \E i \in DOMAIN pass[s].calls : \E j \in DOMAIN pass[s].calls :
              LET failed == pass[s].calls[i]
                  created == pass[s].calls[j]
              IN /\ i < j
                 /\ failed \in Creates(s, key, failed.key, "error")
                 /\ created \in Creates(s, key, created.key, "ok")
                 /\ created.key \in DOMAIN objs
                 /\ failed.key \notin DOMAIN objs
                 /\ \E a \in DOMAIN AssetsOf(s, key) :
                       /\ ObjectOf(AssetsOf(s, key)[a]) = failed.key
                       /\ AssetsOf(s, key)[a].Status = AssetStatusFailed
                 /\ \E a \in DOMAIN AssetsOf(s, key) :
                       /\ ObjectOf(AssetsOf(s, key)[a]) = created.key
                       /\ AssetsOf(s, key)[a].Status = AssetStatusActive

\* C12: at the end of a pass, every asset for which a cluster create,
\* update or delete call has failed is not active and has a status message.
C12_WriteErrorRecordedPerAsset ==
    \A s \in Stacks :
        pass[s].pc = "done" =>
            \A c \in CallsOf(s) :
                (c.op \in {"Create", "Update", "Delete"} /\ c.result = "error")
                => \A i \in DOMAIN AssetsOf(s, c.ref) :
                      ObjectOf(AssetsOf(s, c.ref)[i]) = c.key
                      => /\ AssetsOf(s, c.ref)[i].Status # AssetStatusActive
                         /\ AssetsOf(s, c.ref)[i].StatusMessage # ""

\* The positions of the .yaml entries of an archive other than manifest.yaml.
YamlFiles(archive) ==
    {i \in DOMAIN archive.Entries :
        /\ TrimDotSlash(archive.Entries[i].Name) # "manifest.yaml"
        /\ HasYamlSuffix(archive.Entries[i].Name)}

\* The positions of the manifest.yaml entries of an archive.
IndexEntries(archive) ==
    {i \in DOMAIN archive.Entries : TrimDotSlash(archive.Entries[i].Name) = "manifest.yaml"}

\* The entries of the index of an archive that has one, for the entry at i.
ListingsOf(archive, i) ==
    LET last == CHOOSE m \in IndexEntries(archive) : \A n \in IndexEntries(archive) : n <= m
        contents == archive.Entries[last].Contents
    IN {contents[j] : j \in {k \in DOMAIN contents :
                                contents[k].File = TrimDotSlash(archive.Entries[i].Name)}}

\* Every .yaml file of the archive is in its index, with no checksum or
\* with its own.
Intact(archive) ==
    /\ IndexEntries(archive) # {}
    /\ \A i \in YamlFiles(archive) :
          /\ ListingsOf(archive, i) # {}
          /\ \A l \in ListingsOf(archive, i) :
                l.Sha256 = "" \/ l.Sha256 = archive.Entries[i].Sum

\* The pass of s has recorded no asset and has created no object.
NothingApplied(s) ==
    /\ \A key \in DOMAIN pass[s].assetUseMap :
          /\ pass[s].assetUseMap[key].manifests = <<>>
          /\ pass[s].assetUseMap[key].ActiveAssets = <<>>
    /\ \A c \in CallsOf(s) : c.by # "Apply"
    /\ objs = <<>>

OneMismatched(archive) ==
    /\ IndexEntries(archive) # {}
    /\ Cardinality(YamlFiles(archive)) = 2
    /\ \E i \in YamlFiles(archive) : \E j \in YamlFiles(archive) \ {i} :
          /\ archive.Entries[i].Docs # archive.Entries[j].Docs
          /\ ListingsOf(archive, i) # {}
          /\ \A l \in ListingsOf(archive, i) : l.Sha256 = archive.Entries[i].Sum
          /\ ListingsOf(archive, j) # {}
          /\ \A l \in ListingsOf(archive, j) :
                l.Sha256 \notin {"", archive.Entries[j].Sum}

\* No cluster call of the pass of s has reported an error.
NoClusterCallFailed(s) ==
    \A c \in CallsOf(s) : c.op # "GetManifests" => c.result # "error"

\* C14, as stated: a pass that is served an archive of two assets of which
\* one has another checksum than the index gives, ends with one asset
\* failed with a message and the other asset active.
C14_MismatchedAssetFailedOtherActive ==
    \A s \in Stacks :
        (pass[s].pc = "done" /\ NoClusterCallFailed(s) /\ pass[s].b \in BadArchives
            /\ OneMismatched(pass[s].b))
        => \E key \in DOMAIN pass[s].assetUseMap :
              \E i \in DOMAIN AssetsOf(s, key) : \E j \in DOMAIN AssetsOf(s, key) :
                  /\ AssetsOf(s, key)[i].Status = AssetStatusFailed
                  /\ AssetsOf(s, key)[i].StatusMessage # ""
                  /\ AssetsOf(s, key)[j].Status = AssetStatusActive

\* C14: a pass that activates a pipeline without recorded assets and is
\* served an archive of two assets of which one has another checksum than
\* the index gives, ends with no asset recorded for the pipeline, neither
\* failed nor active, with the error of the retrieval kept in the entry,
\* and with no object created.
C14_MismatchedArchiveRecordsNoAsset ==
    \A s \in Stacks :
        (pass[s].pc = "done" /\ pass[s].b \in BadArchives /\ OneMismatched(pass[s].b))
        => /\ \A key \in DOMAIN pass[s].assetUseMap :
                 /\ AssetsOf(s, key) = <<>>
                 /\ pass[s].assetUseMap[key].useCount > 0 => pass[s].assetUseMap[key].ManifestError
           /\ \A c \in CallsOf(s) : c.op \notin {"Create", "Update", "Delete"}
           /\ objs = <<>>

\* A pass is over that was served such an archive.
C14_Witness ==
    \E s \in Stacks :
        /\ pass[s].pc = "done"
        /\ pass[s].b \in BadArchives
        /\ OneMismatched(pass[s].b)
        /\ Len(pass[s].calls) = 1
        /\ pass[s].calls[1].op = "GetManifests"
        /\ pass[s].calls[1].result = "error"
        /\ pass[s].assetUseMap[KeyOf(badPipeline)].ManifestError

\* C15: whatever digest the spec gives, a download whose checksum is not
\* that digest fails the retrieval of a .tar.gz or .tgz source, with no
\* asset returned, and does not fail that of a .yaml or .yml source, whose
\* decoded assets are returned.
C15_DigestDifference ==
    \A s \in Stacks :
        pass[s].pc = "done" =>
            \A key \in DOMAIN pass[s].assetUseMap :
                LET value == pass[s].assetUseMap[key]
                    b == pass[s].b
                IN (b \in {digest2Archive, singleYaml} /\ b.Sum # value.Digest)
                   => /\ value.Url \in {"/digest2.pipeline.tar.gz", "/digest2.pipeline.tgz"}
                         => /\ \A c \in CallsOf(s) : c.op = "GetManifests" => c.result = "error"
                            /\ value.manifests = <<>>
                            /\ value.ActiveAssets = <<>>
                      /\ value.Url \in {"/single.pipeline.yaml", "/single.pipeline.yml"}
                         => /\ \A c \in CallsOf(s) : c.op = "GetManifests" => c.result = "ok"
                            /\ Len(value.manifests) = Len(b.Docs)
                            /\ \A i \in DOMAIN value.manifests :
                                  value.manifests[i].Name = b.Docs[i].Name

\* The positions in the call log of s of the calls the ensure loop has made
\* for the asset of key that names the object o.
LookupsOf(s, key, o) ==
    {k \in DOMAIN pass[s].calls :
        /\ pass[s].calls[k].op = "Get" /\ pass[s].calls[k].by = "ActivatePipelines"
        /\ pass[s].calls[k].ref = key /\ pass[s].calls[k].key = o}

\* The assets of key were recorded in the status: the ensure loop has
\* started with a Get, not with the retrieval of the manifests.
RecordedInStatus(s, key) ==
    \E k \in DOMAIN pass[s].calls :
        /\ pass[s].calls[k].ref = key
        /\ pass[s].calls[k].by = "ActivatePipelines"
        /\ pass[s].calls[k].op = "Get"
        /\ \A j \in 1..(k - 1) :
              ~(pass[s].calls[j].ref = key /\ pass[s].calls[j].by = "ActivatePipelines")

\* The object o was re-created for the asset: it exists, owned by s, and
\* the asset is active with an empty message.
Recreated(s, key, asset) ==
    /\ asset.Status = AssetStatusActive
    /\ asset.StatusMessage = ""
    /\ \E c \in Creates(s, key, ObjectOf(asset), "ok") : c.owners = <<s>>
    /\ ObjectOf(asset) \in DOMAIN objs
    /\ s \in Range(objs[ObjectOf(asset)])

\* No create, update or delete was issued in the pass of s for an asset
\* whose object the ensure loop has found with s among its owners.
OwnedLeftAlone(s) ==
    \A c \in CallsOf(s) :
        (/\ c.op = "Get" /\ c.by = "ActivatePipelines" /\ c.result = "ok"
         /\ s \in Range(c.owners))
        => \A w \in CallsOf(s) :
              (w.ref = c.ref /\ w.key = c.key) => w.op \notin {"Create", "Update", "Delete"}

HasTektonManifest(s, key, asset) ==
    LET manifests == pass[s].assetUseMap[key].manifests
        same == {j \in DOMAIN manifests : manifests[j].Name = asset.Name}
    IN /\ same # {}
       /\ \A j \in same : manifests[j].Group \in {"tekton.dev", "triggers.tekton.dev"}

ManifestsGone(s, key, asset) ==
    \E k \in LookupsOf(s, key, ObjectOf(asset)) :
        /\ pass[s].calls[k].result = "notfound"
        /\ k < Len(pass[s].calls)
        /\ pass[s].calls[k + 1].op = "GetManifests"
        /\ pass[s].calls[k + 1].ref = key
        /\ pass[s].calls[k + 1].result = "error"

\* C17: at the end of a pass, an asset recorded in the status whose object
\* was not found and whose manifests could not be retrieved is failed with
\* the message "Manifests are no longer available at specified URL" and no
\* object was created for it; the assets of the pipeline whose object was
\* found are active.
C17_ManifestsNoLongerAvailable ==
    \A s \in Stacks :
        pass[s].pc = "done" =>
            \A key \in DOMAIN pass[s].assetUseMap :
                \A i \in DOMAIN AssetsOf(s, key) :
                    LET asset == AssetsOf(s, key)[i]
                    IN /\ ManifestsGone(s, key, asset)
                          => /\ asset.Status = AssetStatusFailed
                             /\ asset.StatusMessage =
                                  "Manifests are no longer available at specified URL"
                             /\ \A c \in CallsOf(s) :
                                   (c.ref = key /\ c.key = ObjectOf(asset))
                                   => c.op \notin {"Create", "Update", "Delete"}
                       /\ (\E k \in LookupsOf(s, key, ObjectOf(asset)) :
                               pass[s].calls[k].result = "ok")
                          => asset.Status = AssetStatusActive

\* A pass is over in which the object of one recorded asset was missing
\* with the manifests gone, and the object of another asset of the pipeline
\* was found.
C17_Witness ==
    \E s \in Stacks : \E key \in DOMAIN pass[s].assetUseMap :
        /\ pass[s].pc = "done"
        /\ \E i \in DOMAIN AssetsOf(s, key) :
              /\ ManifestsGone(s, key, AssetsOf(s, key)[i])
              /\ AssetsOf(s, key)[i].Status = AssetStatusFailed
              /\ ObjectOf(AssetsOf(s, key)[i]) \notin DOMAIN objs
        /\ \E i \in DOMAIN AssetsOf(s, key) :
              /\ \E k \in LookupsOf(s, key, ObjectOf(AssetsOf(s, key)[i])) :
                    pass[s].calls[k].result = "ok"
              /\ AssetsOf(s, key)[i].Status = AssetStatusActive

\* C18: in one pass, the retrieval of the manifests of a pipeline fails at
\* most once.
C18_AtMostOneFailedFetch ==
    \A s \in Stacks : \A key \in DOMAIN pass[s].assetUseMap :
        Cardinality({k \in DOMAIN pass[s].calls :
                        /\ pass[s].calls[k].op = "GetManifests"
                        /\ pass[s].calls[k].ref = key
                        /\ pass[s].calls[k].result = "error"}) <= 1

\* C19: DeleteAsset makes no call for an asset recorded as failed or
\* unknown, and no Update or Delete after a Get that has not found the
\* object; in both cases it reports no error.
C19_DeleteAssetLeavesAlone ==
    \A s \in Stacks :
        LET calls == pass[s].calls
        IN \A k \in DOMAIN calls :
              calls[k].by = "DeleteAsset" =>
                  /\ \A i \in DOMAIN AssetsOf(s, calls[k].ref) :
                        ObjectOf(AssetsOf(s, calls[k].ref)[i]) = calls[k].key
                        => AssetsOf(s, calls[k].ref)[i].Status
                               \notin {AssetStatusFailed, AssetStatusUnknown}
                  /\ (calls[k].op = "Get" /\ calls[k].result = "notfound")
                     => /\ k = Len(calls) => pass[s].pc # "DeleteAssetWrite"
                        /\ k < Len(calls) =>
                              ~(/\ calls[k + 1].by = "DeleteAsset"
                                /\ calls[k + 1].op \in {"Update", "Delete"}
                                /\ calls[k + 1].key = calls[k].key)

\* A pass is over that has deactivated a pipeline with an asset recorded as
\* failed, whose object the stack still owns and for which no call was
\* made, and with an asset whose object DeleteAsset has not found.
C19_Witness ==
    \E s \in Stacks : \E key \in DOMAIN pass[s].assetUseMap :
        /\ pass[s].pc = "done"
        /\ pass[s].assetUseMap[key].useCount <= 0
        /\ \E i \in DOMAIN AssetsOf(s, key) :
              LET asset == AssetsOf(s, key)[i]
              IN /\ asset.Status = AssetStatusFailed
                 /\ ObjectOf(asset) \in DOMAIN objs
                 /\ s \in Range(objs[ObjectOf(asset)])
                 /\ \A c \in CallsOf(s) : c.key # ObjectOf(asset)
        /\ \E k \in DOMAIN pass[s].calls :
              /\ pass[s].calls[k].by = "DeleteAsset"
              /\ pass[s].calls[k].ref = key
              /\ pass[s].calls[k].result = "notfound"
              /\ k = Len(pass[s].calls)

\* C20: at the end of a pass, the status of every asset in the use map is
\* active, failed or unknown.
C20_StatusIsOneOfThree ==
    \A s \in Stacks :
        pass[s].pc = "done" =>
            \A key \in DOMAIN pass[s].assetUseMap :
                \A i \in DOMAIN AssetsOf(s, key) :
                    AssetsOf(s, key)[i].Status
                        \in {AssetStatusActive, AssetStatusFailed, AssetStatusUnknown}

\* The outcomes of the calls of the pass of s so far.
OutcomesOf(s) == {Outcome(c) : c \in CallsOf(s)}

\* The results the retrievals of the manifests of key have had.
FetchResults(outcomes, key) ==
    {o.result : o \in {x \in outcomes : x.op = "GetManifests" /\ x.ref = key}}

\* The source of the manifests has answered in one way for each pipeline,
\* in the pass of s and in the one before.
SameSource(s) ==
    \A key \in DOMAIN pass[s].assetUseMap :
        Cardinality(FetchResults(pass[s].prev.outcomes \cup OutcomesOf(s), key)) <= 1

\* No cluster call of the pass before that of s has reported an error.
NoClusterCallFailedBefore(s) ==
    \A o \in pass[s].prev.outcomes : o.op # "GetManifests" => o.result # "error"

\* The second pass of s is over: it has met no error of the cluster and
\* the manifests were available, or not, as in the first.
SecondPassOver(s) ==
    /\ pass[s].pc = "done"
    /\ Again(s)
    /\ NoClusterCallFailed(s)
    /\ SameSource(s)

\* The second pass has left every asset as the first has recorded it and
\* has issued no Create, Update or Delete.
NothingRedone(s) ==
    /\ \A key \in DOMAIN pass[s].assetUseMap :
          /\ key \in DOMAIN pass[s].prev.assetUseMap
          /\ AssetsOf(s, key) = pass[s].prev.assetUseMap[key].ActiveAssets
    /\ \A c \in CallsOf(s) : c.op \notin {"Create", "Update", "Delete"}

\* C21: a second pass with the spec of the first, the status the first
\* has produced and the cluster the first has left, with no error of the
\* cluster in either pass and the same answers of the manifest source,
\* yields the asset statuses of the first and issues no Create, Update or
\* Delete.
C21_SecondPassRedoesNothing ==
    \A s \in Stacks :
        (SecondPassOver(s) /\ NoClusterCallFailedBefore(s)) => NothingRedone(s)

\* C22: ActivatePipelines returns an error only when a (reference,
\* version) pair of the decrement set has no entry in the use map, before
\* any call is made; no failure of a retrieval of manifests and no failure
\* of a cluster Get, Create, Update or Delete makes it return an error.
C22_ErrorOnlyForMissingEntry ==
    \A s \in Stacks :
        /\ pass[s].err
              => /\ pass[s].pc = "done"
                 /\ pass[s].calls = <<>>
                 /\ \E pr \in pass[s].statusPairs \ pass[s].specPairs :
                       pr.key \notin DOMAIN pass[s].assetUseMap
        /\ (\E c \in CallsOf(s) : c.result = "error") => ~pass[s].err

\* A pass is over, without error returned, in which a retrieval of
\* manifests, a Get, a Delete and a Create or an Update have failed.
C22_Witness ==
    \E s \in Stacks :
        /\ pass[s].pc = "done"
        /\ ~pass[s].err
        /\ \E c \in CallsOf(s) : c.op = "GetManifests" /\ c.result = "error"
        /\ \E c \in CallsOf(s) : c.op = "Get" /\ c.result = "error"
        /\ \E c \in CallsOf(s) : c.op = "Delete" /\ c.result = "error"
        /\ \E c \in CallsOf(s) : c.op \in {"Create", "Update"} /\ c.result = "error"

\* The namespace an object decoded from an archive is to live in.
NamespaceFor(manifest) ==
    IF manifest.Kind = "TriggerBinding" \/ manifest.Kind = "TriggerTemplate"
          \/ manifest.Kind = "EventListener"
    THEN (IF manifest.Namespace = "" THEN targetNamespace ELSE manifest.Namespace)
    ELSE targetNamespace

\* C23: the namespace recorded for a newly decoded asset is the one of the
\* object when its kind is TriggerBinding, TriggerTemplate or EventListener
\* and it has one, and the target namespace otherwise; the object is
\* looked up and created in the recorded namespace and in no other.
C23_NamespaceOfNewAsset ==
    \A s \in Stacks :
        LET key == KeyOf(triggerPipeline)
        IN key \in DOMAIN pass[s].assetUseMap =>
              LET value == pass[s].assetUseMap[key]
              IN /\ Len(value.ActiveAssets) = Len(value.manifests)
                 /\ \A i \in DOMAIN value.ActiveAssets :
                       /\ value.ActiveAssets[i].Name = value.manifests[i].Name
                       /\ value.ActiveAssets[i].Namespace = NamespaceFor(value.manifests[i])
                 /\ \A c \in CallsOf(s) :
                       (c.ref = key /\ c.op \in {"Get", "Create", "Update"})
                       => \E i \in DOMAIN value.ActiveAssets :
                             c.key = ObjectKey(value.ActiveAssets[i].Namespace,
                                               value.ActiveAssets[i].Name)
                 /\ pass[s].pc = "done"
                       => \A i \in DOMAIN value.ActiveAssets :
                             LET o == ObjectKey(value.ActiveAssets[i].Namespace,
                                                value.ActiveAssets[i].Name)
                             IN /\ \E c \in CallsOf(s) : c.op = "Get" /\ c.key = o
                                /\ (NoCallFailed(s) /\ value.ActiveAssets[i].Status = AssetStatusActive)
                                      => o \in DOMAIN objs

\* A pass is over that has created a trigger template in the namespace it
\* came with and, in the target namespace, a trigger binding that came
\* without namespace or a task that came with one.
C23_Witness ==
    \E s \in Stacks :
        LET key == KeyOf(triggerPipeline)
        IN /\ pass[s].pc = "done"
           /\ key \in DOMAIN pass[s].assetUseMap
           /\ \E i \in DOMAIN AssetsOf(s, key) :
                 /\ AssetsOf(s, key)[i].Kind = "TriggerTemplate"
                 /\ AssetsOf(s, key)[i].Namespace = "tekton-pipelines"
                 /\ Creates(s, key, ObjectKey("tekton-pipelines", AssetsOf(s, key)[i].Name), "ok") # {}
           /\ \E i \in DOMAIN AssetsOf(s, key) :
                 /\ \/ /\ AssetsOf(s, key)[i].Kind = "TriggerBinding"
                       /\ pass[s].assetUseMap[key].manifests[i].Namespace = ""
                    \/ /\ AssetsOf(s, key)[i].Kind = "Task"
                       /\ pass[s].assetUseMap[key].manifests[i].Namespace = "tekton-pipelines"
                 /\ AssetsOf(s, key)[i].Namespace = targetNamespace
                 /\ Creates(s, key, ObjectKey(targetNamespace, AssetsOf(s, key)[i].Name), "ok") # {}

\* The manifests of key were retrieved for an entry without assets.
FetchedAnew(s, key) ==
    /\ ~RecordedInStatus(s, key)
    /\ \E c \in CallsOf(s) : c.op = "GetManifests" /\ c.ref = key /\ c.result = "ok"

\* The positions in the call log of s of the Create calls for the entry of
\* key and the object o.
CreatesAt(s, key, o) ==
    {k \in DOMAIN pass[s].calls :
        /\ pass[s].calls[k].op = "Create" /\ pass[s].calls[k].by = "Apply"
        /\ pass[s].calls[k].ref = key /\ pass[s].calls[k].key = o}

\* No owner list has the UID of a stack twice.
NoOwnerTwice ==
    \A o \in DOMAIN objs : \A s \in Stacks :
        Cardinality({i \in DOMAIN objs[o] : objs[o][i] = s}) <= 1

OwnersFor(manifest, s) ==
    IF manifest.Kind \in {"TriggerBinding", "TriggerTemplate", "EventListener"}
          /\ manifest.Namespace # ""
    THEN <<>>
    ELSE <<s>>

\* The assets decoded for key have different names.
DistinctNames(s, key) ==
    \A i, j \in DOMAIN AssetsOf(s, key) :
        AssetsOf(s, key)[i].Name = AssetsOf(s, key)[j].Name => i = j

ObjectsOf(s, key) == {ObjectOf(AssetsOf(s, key)[i]) : i \in DOMAIN AssetsOf(s, key)}

\* The pass of s has removed the pipeline gone and has kept the pipeline
\* kept, whose recorded assets name other objects.
KeptOneOfTwo(s, gone, kept) ==
    /\ pass[s].pc = "done"
    /\ NoCallFailed(s)
    /\ gone \in DOMAIN pass[s].assetUseMap
    /\ kept \in DOMAIN pass[s].assetUseMap
    /\ pass[s].assetUseMap[gone].useCount <= 0
    /\ pass[s].assetUseMap[kept].useCount > 0
    /\ ObjectsOf(s, gone) # {}
    /\ ObjectsOf(s, kept) # {}
    /\ ObjectsOf(s, gone) \cap ObjectsOf(s, kept) = {}

\* C25: when the status records two versions with different pipelines,
\* whose assets name different objects, and the spec keeps one of them, a
\* pass without failed call deletes the objects of the removed pipeline
\* that the stack alone owned and no other object, and issues no Create,
\* Update or Delete for the objects of the retained pipeline that it finds
\* owned by the stack, which stay owned by the stack.
C25_RemovedVersionDeletedOtherKept ==
    \A s \in Stacks : \A gone, kept \in DOMAIN pass[s].assetUseMap :
        KeptOneOfTwo(s, gone, kept) =>
            /\ \A c \in CallsOf(s) : c.op = "Delete" => c.key \in ObjectsOf(s, gone)
            /\ \A o \in ObjectsOf(s, gone) :
                  /\ \A c \in CallsOf(s) :
                        (c.by = "DeleteAsset" /\ c.op = "Get" /\ c.key = o /\ c.owners = <<s>>)
                        => /\ \E d \in CallsOf(s) : d.op = "Delete" /\ d.key = o /\ d.result = "ok"
                           /\ o \notin DOMAIN objs
                  /\ o \in DOMAIN objs => s \notin Range(objs[o])
            /\ \A o \in ObjectsOf(s, kept) :
                  \A c \in CallsOf(s) :
                      (/\ c.by = "ActivatePipelines" /\ c.op = "Get" /\ c.key = o
                       /\ c.result = "ok" /\ s \in Range(c.owners))
                      => /\ \A w \in CallsOf(s) :
                               w.key = o => w.op \notin {"Create", "Update", "Delete"}
                         /\ o \in DOMAIN objs
                         /\ objs[o] = c.owners

\* A pass without failed call is over that has removed one of two versions:
\* the two objects of its pipeline, which the stack alone owned, were
\* deleted, and the object of the pipeline kept was found and is owned by
\* the stack as before.
C25_Witness ==
    \E s \in Stacks : \E gone, kept \in DOMAIN pass[s].assetUseMap :
        /\ KeptOneOfTwo(s, gone, kept)
        /\ Cardinality(ObjectsOf(s, gone)) = 2
        /\ \A o \in ObjectsOf(s, gone) :
              /\ \E d \in CallsOf(s) :
                    d.op = "Delete" /\ d.key = o /\ d.result = "ok" /\ d.before = <<s>>
              /\ o \notin DOMAIN objs
        /\ \A o \in ObjectsOf(s, kept) :
              /\ \E c \in CallsOf(s) :
                    /\ c.by = "ActivatePipelines" /\ c.op = "Get" /\ c.key = o
                    /\ c.result = "ok" /\ s \in Range(c.owners)
              /\ o \in DOMAIN objs
              /\ s \in Range(objs[o])
        /\ \A c \in CallsOf(s) : c.op \notin {"Create", "Update"}

\* The objects that the assets of the entries with a positive use count
\* name.
ObjectsInUse(s) ==
    UNION {ObjectsOf(s, key) :
             key \in {k \in DOMAIN pass[s].assetUseMap : pass[s].assetUseMap[k].useCount > 0}}

\* C26: in a pass, every call of DeleteAsset is made before the first call
\* of ensure-present.  At the end of a pass without failed call that has
\* removed a pipeline and fetched a newly desired one, the object of an
\* asset recorded as active of the removed pipeline exists and is owned by
\* the stack when the new pipeline lists it too; when no pipeline in use
\* lists it, the stack is not among its owners, and it is gone if the
\* stack alone owned it.
C26_DeleteBeforeEnsure ==
    \A s \in Stacks :
        /\ \A i, j \in DOMAIN pass[s].calls :
              (pass[s].calls[i].by = "DeleteAsset"
                  /\ pass[s].calls[j].by \in {"ActivatePipelines", "Apply"}) => i < j
        /\ (\E c \in CallsOf(s) : c.by \in {"ActivatePipelines", "Apply"})
              => pass[s].pc \notin {"delete", "DeleteAsset", "DeleteAssetWrite"}
        /\ (pass[s].pc = "done" /\ NoCallFailed(s)) =>
              \A gone, new \in DOMAIN pass[s].assetUseMap :
                  (/\ pass[s].assetUseMap[gone].useCount <= 0
                   /\ pass[s].assetUseMap[new].useCount > 0
                   /\ FetchedAnew(s, new))
                  => \A i \in DOMAIN AssetsOf(s, gone) :
                        LET o == ObjectOf(AssetsOf(s, gone)[i])
                        IN AssetsOf(s, gone)[i].Status = AssetStatusActive
                           => /\ o \in ObjectsOf(s, new)
                                    => /\ o \in DOMAIN objs
                                       /\ s \in Range(objs[o])
                              /\ o \notin ObjectsInUse(s)
                                    => /\ o \in DOMAIN objs => s \notin Range(objs[o])
                                       /\ \A c \in CallsOf(s) :
                                             (c.by = "DeleteAsset" /\ c.op = "Get"
                                                 /\ c.key = o /\ c.owners = <<s>>)
                                             => o \notin DOMAIN objs

\* A pass without failed call is over that has removed a pipeline and
\* fetched a new one: the object both list was deleted and created again,
\* and the object that the removed pipeline alone lists is gone.
C26_Witness ==
    \E s \in Stacks : \E gone, new \in DOMAIN pass[s].assetUseMap :
        /\ pass[s].pc = "done"
        /\ NoCallFailed(s)
        /\ pass[s].assetUseMap[gone].useCount <= 0
        /\ pass[s].assetUseMap[new].useCount > 0
        /\ FetchedAnew(s, new)
        /\ \E o \in ObjectsOf(s, gone) \cap ObjectsOf(s, new) :
              /\ \E i, j \in DOMAIN pass[s].calls :
                    /\ i < j
                    /\ pass[s].calls[i].by = "DeleteAsset" /\ pass[s].calls[i].op = "Delete"
                    /\ pass[s].calls[i].key = o
                    /\ pass[s].calls[j].by = "Apply" /\ pass[s].calls[j].op = "Create"
                    /\ pass[s].calls[j].key = o
              /\ o \in DOMAIN objs
              /\ objs[o] = <<s>>
        /\ \E o \in ObjectsOf(s, gone) \ ObjectsInUse(s) :
              /\ \E c \in CallsOf(s) : c.by = "DeleteAsset" /\ c.op = "Delete" /\ c.key = o
              /\ o \notin DOMAIN objs

\* The positions in the call log of s of the retrievals of the manifests of
\* key.
FetchesAt(s, key) ==
    {k \in DOMAIN pass[s].calls :
        pass[s].calls[k].op = "GetManifests" /\ pass[s].calls[k].ref = key}

\* The retrieval for the entry of key, which had no assets, has failed in
\* the pass of s.
FetchFailedAnew(s, key) ==
    /\ ~RecordedInStatus(s, key)
    /\ \E c \in CallsOf(s) : c.op = "GetManifests" /\ c.ref = key /\ c.result = "error"

\* The pass before that of s has failed to retrieve the manifests of key.
FetchFailedBefore(s, key) ==
    /\ Again(s)
    /\ "error" \in FetchResults(pass[s].prev.outcomes, key)
    /\ pass[s].prev.assetUseMap[key].ActiveAssets = <<>>

\* C27: when the retrieval for a pipeline without recorded assets fails,
\* the pass makes that one attempt only, makes no Get, Create or Update for
\* the pipeline, and leaves it with an empty asset list.  In the next pass
\* the retrieval is attempted again, and when it succeeds and no call
\* fails, every asset of an allowed group whose object is missing is
\* created and recorded active.
C27_FailedFetchRetriedNextPass ==
    \A s \in Stacks : \A key \in DOMAIN pass[s].assetUseMap :
        /\ FetchFailedAnew(s, key) =>
              /\ Cardinality(FetchesAt(s, key)) = 1
              /\ \A c \in CallsOf(s) :
                    c.ref = key => c.op \notin {"Get", "Create", "Update", "Transform"}
              /\ AssetsOf(s, key) = <<>>
              /\ pass[s].assetUseMap[key].ManifestError
        /\ (FetchFailedBefore(s, key) /\ pass[s].assetUseMap[key].useCount > 0
               /\ pass[s].pc = "done") =>
              /\ Cardinality(FetchesAt(s, key)) = 1
              /\ (FetchedAnew(s, key) /\ NoCallFailed(s)) =>
                    \A i \in DOMAIN AssetsOf(s, key) :
                        LET o == ObjectOf(AssetsOf(s, key)[i])
                        IN (\E c \in CallsOf(s) :
                               /\ c.op = "Get" /\ c.ref = key /\ c.key = o
                               /\ c.result = "notfound"
                               /\ AllowedGroup(c.group))
                           => /\ Creates(s, key, o, "ok") # {}
                              /\ AssetsOf(s, key)[i].Status = AssetStatusActive

\* The first pass has failed to retrieve the manifests of a pipeline without
\* assets; the second pass is over, has retrieved them and has created an
\* object for the pipeline.
C27_Witness ==
    \E s \in Stacks : \E key \in DOMAIN pass[s].assetUseMap :
        /\ FetchFailedBefore(s, key)
        /\ pass[s].pc = "done"
        /\ FetchedAnew(s, key)
        /\ NoCallFailed(s)
        /\ \E i \in DOMAIN AssetsOf(s, key) :
              /\ Creates(s, key, ObjectOf(AssetsOf(s, key)[i]), "ok") # {}
              /\ AssetsOf(s, key)[i].Status = AssetStatusActive

\* C28: every failed retrieval of a pipeline's manifests in the ensure
\* range, for an empty asset list or for a recorded asset whose object was
\* not found, is recorded in the ManifestError field of the pipeline's
\* entry of the returned use map.
C28_EveryFailedFetchInManifestError ==
    \A s \in Stacks :
        pass[s].pc = "done" =>
            \A c \in CallsOf(s) :
                (c.op = "GetManifests" /\ c.result = "error")
                => pass[s].assetUseMap[c.ref].ManifestError

\* C30: a pass issues no Delete and no Update that strips the owner
\* reference for an object that an asset of a pipeline with a final use
\* count above 0 names, also when a pipeline with use count 0 or less has
\* an asset of the same name.
C30_NoDeleteOfObjectInUse ==
    \A s \in Stacks :
        pass[s].pc = "done" =>
            \A c \in CallsOf(s) :
                (c.by = "DeleteAsset" /\ c.op \in {"Delete", "Update"})
                => c.key \notin ObjectsInUse(s)

\* A step of another stack than t leaves every object that has t among
\* its owners in the cluster, with t among its owners.
KeepsOwner(t) ==
    \A o \in DOMAIN objs :
        (t \in Range(objs[o]) /\ pass'[t] = pass[t])
        => (o \in DOMAIN objs' /\ t \in Range(objs'[o]))

\* C29: when the passes of two stacks interleave call by call, no call of
\* one stack deletes an object that carries the owner reference of the
\* other, and none removes the other's owner reference from it.
C29_OtherOwnerNeverLost == [][\A t \in Stacks : KeepsOwner(t)]_vars

\* C31: at the end of a pass, every asset recorded as active of a pipeline
\* with a positive use count names an object that exists in the namespace
\* recorded for the asset, whatever the calls have returned and whatever
\* the manifests hold.
C31_ActiveAssetExists ==
    \A s \in Stacks :
        (pass[s].pc = "done" /\ ~pass[s].err) =>
            \A key \in DOMAIN pass[s].assetUseMap :
                pass[s].assetUseMap[key].useCount > 0 =>
                    \A i \in DOMAIN AssetsOf(s, key) :
                        AssetsOf(s, key)[i].Status = AssetStatusActive
                        => ObjectKey(AssetsOf(s, key)[i].Namespace, AssetsOf(s, key)[i].Name)
                               \in DOMAIN objs

\* C32: every (reference, version) pair of the status, and so every pair
\* of the decrement set, has an entry in the use map; the pass never ends
\* with the error of a missing entry and returns the use map.
C32_DecrementPairsHaveEntry ==
    \A s \in Stacks :
        /\ ~pass[s].err
        /\ pass[s].pc # "idle" =>
              \A pr \in pass[s].statusPairs : pr.key \in DOMAIN pass[s].assetUseMap
        /\ pass[s].pc \notin {"idle", "seeded"} =>
              \A pr \in pass[s].statusPairs \cup pass[s].specPairs :
                  pr.key \in DOMAIN pass[s].assetUseMap

\* A pass is over whose decrement set held the pairs of two versions of
\* the status, for two references, and which has returned the use map.
C32_Witness ==
    \E s \in Stacks :
        /\ pass[s].pc = "done"
        /\ ~pass[s].err
        /\ \E pr, qr \in pass[s].statusPairs \ pass[s].specPairs :
              /\ pr.version # qr.version
              /\ pr.key # qr.key
              /\ pass[s].assetUseMap[pr.key].useCount = 0
              /\ pass[s].assetUseMap[qr.key].useCount = 0

\* C33: the manifests of a key are retrieved with the certificate
\* verification skipped only if every entry of the spec that has the key
\* sets SkipCertVerification; a key that no entry of the spec has is
\* retrieved with the verification.
C33_SkipOnlyIfEveryEntrySkips ==
    \A s \in Stacks : \A key \in pass[s].skipped :
        /\ \E e \in pass[s].specEntries : e.key = key
        /\ \A e \in pass[s].specEntries : e.key = key => e.skip

====
